---- MODULE Spec2Model ----
(***************************************************************************)
(* Liquidity-band recommender: the cache and query layer of app.py over    *)
(* the parsing, summary, binning and ranking pipeline it orchestrates.     *)
(*                                                                         *)
(* Numbers.  Python floats are modelled as fixed-point integers with       *)
(* resolution 1/Scale (FMul, FDiv keep the order of the float operations). *)
(* On-chain raw amounts (integers of 10^18 base units) are modelled in     *)
(* scientific form [m, e], value m * 10^e.  The wall clock counts minutes. *)
(***************************************************************************)
EXTENDS Integers, Sequences, FiniteSets, TLC

\* Python's None: an optional value is <<>> or <<v>>
None == <<>>
Some(v) == <<v>>
IsNone(o) == o = <<>>
Val(o) == o[1]

-----------------------------------------------------------------------------
(* Bounds of the model *)

\* resolution of the fixed-point numbers: 1/Scale
Scale == 100
\* the wall clock advances in steps of ClockStep minutes, up to MaxClock
ClockStep == 5
MaxClock == 15

-----------------------------------------------------------------------------
(* Program constants *)

NUM_BINS == 50
CACHE_EXPIRATION_MINUTES == 10
TOP_N_FILTERED == 3
TOP_N_DEFAULT == 5
MIN_REASONABLE_PRICE == 100
MAX_REASONABLE_PRICE == 100000
MAX_WETH == 1000000
\* MAX_USDT = 1e12, MIN_PRICE_THRESHOLD = 1e-10, MAX_PRICE_THRESHOLD = 1e10:
\* kept as powers of ten, compared through GtPow10 / LtPow10
MAX_USDT_EXP10 == 12
MIN_PRICE_THRESHOLD_EXP10 == -10
MAX_PRICE_THRESHOLD_EXP10 == 10
WETH_DECIMALS == 18
USDT_DECIMALS == 6
WETH_ADDRESS == "0xc02aaa39b223fe8d0a0e5c4f27ead9083c756cc2"
USDT_ADDRESS == "0xdac17f958d2ee523a2206206994597c13d831ec7"
HTTP_OK == 200
TIME_RANGE_HOURS == 240
HTTP_BAD_REQUEST == 400
HTTP_NOT_FOUND == 404
HTTP_SERVER_ERROR == 500

-----------------------------------------------------------------------------
(* Fixed-point arithmetic standing for float arithmetic *)

F(x) == x * Scale
FMul(a, b) == (a * b) \div Scale
FDiv(a, b) == (a * Scale) \div b

RECURSIVE Pow10(_)
Pow10(n) == IF n <= 0 THEN 1 ELSE 10 * Pow10(n - 1)

RECURSIVE DivPow10(_, _)
DivPow10(x, k) == IF k <= 0 \/ x = 0 THEN x ELSE DivPow10(x \div 10, k - 1)

\* x > 10^e for a fixed-point x; every number of the model is below 10^8
GtPow10(x, e) == IF e >= 8 THEN FALSE ELSE x > F(Pow10(e))

\* x < 10^e for a fixed-point x and e < 0 below the resolution: only x <= 0
LtPow10(x, e) == IF e >= 0 THEN x < F(Pow10(e)) ELSE x <= 0

\* the float value of the scientific-form number m * 10^e
DecToFloat(m, e) == IF e >= 0 THEN F(m * Pow10(e)) ELSE DivPow10(F(m), -e)

Raw(m, e) == [m |-> m, e |-> e]

\* integer addition and negation of raw amounts in scientific form
RawAdd(a, b) ==
    IF b.m = 0 THEN a
    ELSE IF a.m = 0 THEN b
    ELSE LET e == IF a.e <= b.e THEN a.e ELSE b.e
         IN  Raw(a.m * Pow10(a.e - e) + b.m * Pow10(b.e - e), e)

RawNeg(a) == Raw(-a.m, a.e)

-----------------------------------------------------------------------------
(* Sequence helpers *)

Take(s, n) == IF Len(s) <= n THEN s ELSE SubSeq(s, 1, n)

\* the list with every element computed (a list comprehension, evaluated once)
List(s) == SubSeq(s, 1, Len(s))

RECURSIVE SumSeq(_)
SumSeq(s) == IF s = <<>> THEN 0 ELSE Head(s) + SumSeq(Tail(s))

-----------------------------------------------------------------------------
(* parser.py: tick math and extraction of mint positions *)

\* 1.0001^tick, in units of 10^-12, for the ticks the upstream data uses
TickPowers ==
    [t \in {-207243, -206755, -206290, -205845, -203188, -200311, -199823} |->
        CASE t = -207243 -> 1000
          [] t = -206755 -> 1050
          [] t = -206290 -> 1100
          [] t = -205845 -> 1150
          [] t = -203188 -> 1500
          [] t = -200311 -> 2000
          [] t = -199823 -> 2100]

\* str.lower() on the addresses the upstream returns
normalize_address(address) ==
    CASE address = "0xC02aaA39b223FE8D0A0e5C4F27eAD9083C756Cc2" -> WETH_ADDRESS
      [] address = "0xdAC17F958D2ee523a2206206994597C13D831ec7" -> USDT_ADDRESS
      [] OTHER -> address

calculate_price_with_decimals(tick, decimal0, decimal1) ==
    DecToFloat(TickPowers[tick], -12 - (decimal1 - decimal0))

\* None, or the parsed position of one mint call record
extract_position_data(position) ==
    LET token0_address == normalize_address(position.token0)
        token1_address == normalize_address(position.token1)
        has_weth == token0_address = WETH_ADDRESS \/ token1_address = WETH_ADDRESS
        has_usdt == token0_address = USDT_ADDRESS \/ token1_address = USDT_ADDRESS
        is_weth_token0 == token0_address = WETH_ADDRESS
        decimal0 == IF is_weth_token0 THEN WETH_DECIMALS ELSE USDT_DECIMALS
        decimal1 == IF is_weth_token0 THEN USDT_DECIMALS ELSE WETH_DECIMALS
    IN  IF position.n_arguments < 2 THEN None
        ELSE IF ~(has_weth /\ has_usdt) THEN None
        ELSE IF \/ IsNone(position.tick_lower) \/ IsNone(position.tick_upper)
                \/ IsNone(position.nft_id) \/ IsNone(position.time)
             THEN None
        ELSE Some([nft_id |-> Val(position.nft_id),
                   tick_lower |-> Val(position.tick_lower),
                   tick_upper |-> Val(position.tick_upper),
                   timestamp |-> Val(position.time),
                   token0 |-> token0_address,
                   token1 |-> token1_address,
                   price_lower_afterdecimals |->
                       calculate_price_with_decimals(Val(position.tick_lower),
                                                     decimal0, decimal1),
                   price_upper_afterdecimals |->
                       calculate_price_with_decimals(Val(position.tick_upper),
                                                     decimal0, decimal1),
                   amount0 |-> position.amount0,
                   amount1 |-> position.amount1])

RECURSIVE parse_positions(_)
parse_positions(calls) ==
    IF calls = <<>> THEN <<>>
    ELSE LET parsed == extract_position_data(Head(calls))
         IN  (IF IsNone(parsed) THEN <<>> ELSE <<Val(parsed)>>)
             \o parse_positions(Tail(calls))

-----------------------------------------------------------------------------
(* parser.py: liquidity deltas and the final summary *)

ZeroDelta == [count |-> 0, total_amount0 |-> Raw(0, 0), total_amount1 |-> Raw(0, 0)]

\* faulty variant: a decrease is counted but its amounts are added
FoldLiquidityCallAdding(nft_data, call) ==
    IF call.signature \notin {"increaseLiquidity", "decreaseLiquidity"} THEN nft_data
    ELSE IF IsNone(call.nft_id) THEN nft_data
    ELSE LET id == Val(call.nft_id)
             old == IF id \in DOMAIN nft_data THEN nft_data[id] ELSE ZeroDelta
             a0 == IF IsNone(call.amount0) THEN Raw(0, 0) ELSE Val(call.amount0)
             a1 == IF IsNone(call.amount1) THEN Raw(0, 0) ELSE Val(call.amount1)
             new == [count |-> old.count + 1,
                     total_amount0 |-> RawAdd(old.total_amount0, a0),
                     total_amount1 |-> RawAdd(old.total_amount1, a1)]
         IN  [k \in DOMAIN nft_data \cup {id} |-> IF k = id THEN new ELSE nft_data[k]]

\* nft_data after one more call record
FoldLiquidityCall(nft_data, call) ==
    IF call.signature \notin {"increaseLiquidity", "decreaseLiquidity"} THEN nft_data
    ELSE IF IsNone(call.nft_id) THEN nft_data
    ELSE LET id == Val(call.nft_id)
             old == IF id \in DOMAIN nft_data THEN nft_data[id] ELSE ZeroDelta
             a0 == IF IsNone(call.amount0) THEN Raw(0, 0) ELSE Val(call.amount0)
             a1 == IF IsNone(call.amount1) THEN Raw(0, 0) ELSE Val(call.amount1)
             is_decrease == call.signature = "decreaseLiquidity"
             new == [count |-> old.count + 1,
                     total_amount0 |->
                         RawAdd(old.total_amount0, IF is_decrease THEN RawNeg(a0) ELSE a0),
                     total_amount1 |->
                         RawAdd(old.total_amount1, IF is_decrease THEN RawNeg(a1) ELSE a1)]
         IN  [k \in DOMAIN nft_data \cup {id} |-> IF k = id THEN new ELSE nft_data[k]]

RECURSIVE FoldLiquidityCalls(_, _)
FoldLiquidityCalls(nft_data, calls) ==
    IF calls = <<>> THEN nft_data
    ELSE FoldLiquidityCalls(FoldLiquidityCall(nft_data, Head(calls)), Tail(calls))

\* the empty dict
EmptyDict == [k \in {} |-> ZeroDelta]

parse_liquidity_events(calls) == FoldLiquidityCalls(EmptyDict, calls)

-----------------------------------------------------------------------------
(* outlier_service.py: validation *)

\* faulty variant: an absent amount is rejected
validate_amounts_when_present(amount_weth, amount_usdt) ==
    /\ ~IsNone(amount_weth) /\ ~IsNone(amount_usdt)
    /\ ~(Val(amount_weth) < 0 \/ Val(amount_weth) > F(MAX_WETH))
    /\ ~(Val(amount_usdt) < 0 \/ GtPow10(Val(amount_usdt), MAX_USDT_EXP10))

\* amounts are fixed-point numbers, so the isnan and isinf tests have no case
validate_amounts(amount_weth, amount_usdt) ==
    /\ IsNone(amount_weth)
       \/ ~(Val(amount_weth) < 0 \/ Val(amount_weth) > F(MAX_WETH))
    /\ IsNone(amount_usdt)
       \/ ~(Val(amount_usdt) < 0 \/ GtPow10(Val(amount_usdt), MAX_USDT_EXP10))

\* dict.get(key): None when the dict has no such key
Get(position, key) == IF key \in DOMAIN position THEN Some(position[key]) ELSE None

validate_position_prices(position, min_reasonable, max_reasonable) ==
    LET price_lower == position.price_lower_afterdecimals
        price_upper == position.price_upper_afterdecimals
    IN  /\ ~(\/ IsNone(Get(position, "price_lower_afterdecimals"))
             \/ IsNone(Get(position, "price_upper_afterdecimals")))
        /\ ~(price_lower < min_reasonable \/ price_upper > max_reasonable)
        /\ ~(price_lower >= price_upper)
        /\ ~(\/ LtPow10(price_lower, MIN_PRICE_THRESHOLD_EXP10)
             \/ GtPow10(price_upper, MAX_PRICE_THRESHOLD_EXP10))
        /\ validate_amounts(Get(position, "amount_weth"), Get(position, "amount_usdt"))

filter_valid_positions(positions, min_reasonable, max_reasonable) ==
    SelectSeq(positions,
              LAMBDA p : validate_position_prices(p, min_reasonable, max_reasonable))

-----------------------------------------------------------------------------
(* parser.py: create_final_summary *)

\* faulty variant: amount0 always goes to the WETH slot and amount1 to the USDT slot
SummaryItemBySlot(position, liquidity_data) ==
    LET nft_id == position.nft_id
        liquidity_info == IF nft_id \in DOMAIN liquidity_data
                          THEN liquidity_data[nft_id] ELSE ZeroDelta
        total_positions == 1 + liquidity_info.count
        is_weth_token0 == normalize_address(position.token0) = WETH_ADDRESS
        decimal0 == IF is_weth_token0 THEN WETH_DECIMALS ELSE USDT_DECIMALS
        decimal1 == IF is_weth_token0 THEN USDT_DECIMALS ELSE WETH_DECIMALS
        mint_amount0 == IF IsNone(position.amount0) THEN Raw(0, 0) ELSE Val(position.amount0)
        mint_amount1 == IF IsNone(position.amount1) THEN Raw(0, 0) ELSE Val(position.amount1)
        total_amount0 == RawAdd(mint_amount0, liquidity_info.total_amount0)
        total_amount1 == RawAdd(mint_amount1, liquidity_info.total_amount1)
        total_amount0_afterdecimals == DecToFloat(total_amount0.m, total_amount0.e - decimal0)
        total_amount1_afterdecimals == DecToFloat(total_amount1.m, total_amount1.e - decimal1)
        total_amount_weth == total_amount0_afterdecimals
        total_amount_usdt == total_amount1_afterdecimals
        summary_item == [nft_id |-> nft_id,
                         create_time |-> position.timestamp,
                         number_of_positions |-> total_positions,
                         price_lower_afterdecimals |-> position.price_lower_afterdecimals,
                         price_upper_afterdecimals |-> position.price_upper_afterdecimals,
                         amount_weth |-> total_amount_weth,
                         amount_usdt |-> total_amount_usdt]
    IN  IF ~validate_amounts(Some(total_amount_weth), Some(total_amount_usdt)) THEN None
        ELSE IF ~validate_position_prices(summary_item, F(MIN_REASONABLE_PRICE),
                                          F(MAX_REASONABLE_PRICE))
             THEN None
        ELSE Some(summary_item)

\* None, or the summary entry of one mint position
SummaryItem(position, liquidity_data) ==
    LET nft_id == position.nft_id
        liquidity_info == IF nft_id \in DOMAIN liquidity_data
                          THEN liquidity_data[nft_id] ELSE ZeroDelta
        total_positions == 1 + liquidity_info.count
        is_weth_token0 == normalize_address(position.token0) = WETH_ADDRESS
        decimal0 == IF is_weth_token0 THEN WETH_DECIMALS ELSE USDT_DECIMALS
        decimal1 == IF is_weth_token0 THEN USDT_DECIMALS ELSE WETH_DECIMALS
        mint_amount0 == IF IsNone(position.amount0) THEN Raw(0, 0) ELSE Val(position.amount0)
        mint_amount1 == IF IsNone(position.amount1) THEN Raw(0, 0) ELSE Val(position.amount1)
        total_amount0 == RawAdd(mint_amount0, liquidity_info.total_amount0)
        total_amount1 == RawAdd(mint_amount1, liquidity_info.total_amount1)
        total_amount0_afterdecimals == DecToFloat(total_amount0.m, total_amount0.e - decimal0)
        total_amount1_afterdecimals == DecToFloat(total_amount1.m, total_amount1.e - decimal1)
        total_amount_weth == IF is_weth_token0 THEN total_amount0_afterdecimals
                             ELSE total_amount1_afterdecimals
        total_amount_usdt == IF is_weth_token0 THEN total_amount1_afterdecimals
                             ELSE total_amount0_afterdecimals
        summary_item == [nft_id |-> nft_id,
                         create_time |-> position.timestamp,
                         number_of_positions |-> total_positions,
                         price_lower_afterdecimals |-> position.price_lower_afterdecimals,
                         price_upper_afterdecimals |-> position.price_upper_afterdecimals,
                         amount_weth |-> total_amount_weth,
                         amount_usdt |-> total_amount_usdt]
    IN  IF ~validate_amounts(Some(total_amount_weth), Some(total_amount_usdt)) THEN None
        ELSE IF ~validate_position_prices(summary_item, F(MIN_REASONABLE_PRICE),
                                          F(MAX_REASONABLE_PRICE))
             THEN None
        ELSE Some(summary_item)

RECURSIVE create_final_summary(_, _)
create_final_summary(mint_positions, liquidity_data) ==
    IF mint_positions = <<>> THEN <<>>
    ELSE LET item == SummaryItem(Head(mint_positions), liquidity_data)
         IN  (IF IsNone(item) THEN <<>> ELSE <<Val(item)>>)
             \o create_final_summary(Tail(mint_positions), liquidity_data)

-----------------------------------------------------------------------------
(* Results of operations that may raise: [ok |-> TRUE, value |-> v] or      *)
(* [ok |-> FALSE, error |-> the words of str(e)]                            *)

Ok(v) == [ok |-> TRUE, value |-> <<v>>, error |-> <<>>]
Raise(words) == [ok |-> FALSE, value |-> <<>>, error |-> words]
ValueOf(r) == r.value[1]

-----------------------------------------------------------------------------
(* parser.py: extraction of records of any shape *)

\* what is wrong with the shape of a record: "none" for a record of dicts and
\* integers, "bad_integer" when the bigInteger of a tick is not a number
\* (int() raises ValueError), "null_argument" when an element of Arguments
\* is null (arg.get raises AttributeError)
Malformation(position) ==
    IF "malformed" \in DOMAIN position THEN position.malformed ELSE "none"

\* extract_position_data with its try/except: the position or None, or the
\* exception that the except clause does not name
extract_position_outcome(position) ==
    IF Malformation(position) = "null_argument"
    THEN IF position.n_arguments < 2 THEN Ok(None) ELSE Raise(<<"AttributeError">>)
    ELSE IF Malformation(position) = "bad_integer"
    THEN Ok(None)   \* returned None already, or the ValueError was caught
    ELSE Ok(extract_position_data(position))

\* parse_positions over records of any shape: the list, or the exception that
\* left extract_position_data
RECURSIVE parse_positions_outcome(_)
parse_positions_outcome(calls) ==
    IF calls = <<>> THEN Ok(<<>>)
    ELSE LET parsed == extract_position_outcome(Head(calls))
         IN  IF ~parsed.ok THEN parsed
             ELSE LET rest == parse_positions_outcome(Tail(calls))
                  IN  IF ~rest.ok THEN rest
                      ELSE Ok((IF IsNone(ValueOf(parsed)) THEN <<>>
                               ELSE <<Val(ValueOf(parsed))>>) \o ValueOf(rest))

-----------------------------------------------------------------------------
(* outlier_service.py: find_price_range *)

\* list.sort() on numbers: the element at place k of the sorted list is the
\* one with k - 1 elements before it, equal elements keeping their order
SortAsc(s) ==
    LET place == List([i \in 1..Len(s) |->
                         1 + Cardinality({j \in 1..Len(s) :
                                            s[j] < s[i] \/ (s[j] = s[i] /\ j < i)})])
    IN  List([k \in 1..Len(s) |-> s[CHOOSE i \in 1..Len(s) : place[i] = k]])

Reasonable(p) ==
    ~LtPow10(p, MIN_PRICE_THRESHOLD_EXP10) /\ ~GtPow10(p, MAX_PRICE_THRESHOLD_EXP10)

\* lists are 0-indexed in the code: s[i] is At(s, i)
At(s, i) == s[i + 1]

\* the values of one key that are present and positive, in input order
PresentPositive(positions, key) ==
    LET having == SelectSeq(positions, LAMBDA p : key \in DOMAIN p /\ p[key] > 0)
    IN  List([i \in 1..Len(having) |-> having[i][key]])

\* faulty variant: the medians are returned whatever the percentile elements are
find_price_range_by_median(positions) ==
    LET all_lowers == SortAsc(PresentPositive(positions, "price_lower_afterdecimals"))
        all_uppers == SortAsc(PresentPositive(positions, "price_upper_afterdecimals"))
    IN  IF all_lowers = <<>> \/ all_uppers = <<>>
        THEN Raise(<<"No", "valid", "price", "data", "found", "in", "positions">>)
        ELSE Ok(<<At(all_lowers, Len(all_lowers) \div 2),
                  At(all_uppers, Len(all_uppers) \div 2)>>)

find_price_range(positions) ==
    LET lowers == PresentPositive(positions, "price_lower_afterdecimals")
        uppers == PresentPositive(positions, "price_upper_afterdecimals")
        all_lowers == SortAsc(lowers)
        all_uppers == SortAsc(uppers)
        lower_percentile_idx == (Len(all_lowers) * 5) \div 100
        upper_idx_raw == (Len(all_uppers) * 95) \div 100
        upper_percentile_idx == IF Len(all_uppers) - 1 < upper_idx_raw
                                THEN Len(all_uppers) - 1 ELSE upper_idx_raw
        min_price == At(all_lowers, lower_percentile_idx)
        max_price == At(all_uppers, upper_percentile_idx)
        median_lower == At(all_lowers, Len(all_lowers) \div 2)
        median_upper == At(all_uppers, Len(all_uppers) \div 2)
        reasonable_lowers == SelectSeq(all_lowers, Reasonable)
        reasonable_uppers == SelectSeq(all_uppers, Reasonable)
    IN  IF all_lowers = <<>> \/ all_uppers = <<>>
        THEN Raise(<<"No", "valid", "price", "data", "found", "in", "positions">>)
        ELSE IF \/ LtPow10(min_price, MIN_PRICE_THRESHOLD_EXP10)
                \/ GtPow10(max_price, MAX_PRICE_THRESHOLD_EXP10)
        THEN IF /\ ~LtPow10(median_lower, MIN_PRICE_THRESHOLD_EXP10)
                /\ ~GtPow10(median_upper, MAX_PRICE_THRESHOLD_EXP10)
             THEN Ok(<<median_lower, median_upper>>)
             ELSE IF reasonable_lowers # <<>> /\ reasonable_uppers # <<>>
             THEN Ok(<<Head(reasonable_lowers),
                       reasonable_uppers[Len(reasonable_uppers)]>>)
             ELSE Raise(<<"No", "reasonable", "price", "range", "found", "in",
                          "positions">>)
        ELSE Ok(<<min_price, max_price>>)

-----------------------------------------------------------------------------
(* bin_service.py *)

\* faulty variant: equal bounds are accepted and give bins of no width
create_bins_unless_reversed(min_price, max_price, num_bins) ==
    IF min_price > max_price
    THEN Raise(<<"min_price", "must", "be", "less", "than", "max_price">>)
    ELSE LET bin_size == (max_price - min_price) \div num_bins
         IN  Ok(List([k \in 1..num_bins |->
                    [bin_index |-> k - 1,
                     priceLower |-> min_price + (k - 1) * bin_size,
                     priceUpper |-> min_price + k * bin_size,
                     amount_weth |-> 0,
                     amount_usdt |-> 0,
                     count_nfts |-> 0]]))

create_bins(min_price, max_price, num_bins) ==
    IF min_price >= max_price
    THEN Raise(<<"min_price", "must", "be", "less", "than", "max_price">>)
    ELSE LET bin_size == (max_price - min_price) \div num_bins
         IN  Ok(List([k \in 1..num_bins |->
                    [bin_index |-> k - 1,
                     priceLower |-> min_price + (k - 1) * bin_size,
                     priceUpper |-> min_price + k * bin_size,
                     amount_weth |-> 0,
                     amount_usdt |-> 0,
                     count_nfts |-> 0]]))

calculate_overlap(position_lower, position_upper, bin_lower, bin_upper) ==
    LET overlap_lower == IF position_lower >= bin_lower THEN position_lower ELSE bin_lower
        overlap_upper == IF position_upper <= bin_upper THEN position_upper ELSE bin_upper
    IN  IF overlap_lower >= overlap_upper THEN 0 ELSE overlap_upper - overlap_lower

\* faulty variant: a bin is counted only when the overlap is at least half its width
distribute_ignoring_slight_overlaps(position, bins) ==
    LET position_lower == position.price_lower_afterdecimals
        position_upper == position.price_upper_afterdecimals
        overlaps == List([k \in 1..Len(bins) |->
                            calculate_overlap(position_lower, position_upper,
                                              bins[k].priceLower, bins[k].priceUpper)])
        position_range == position_upper - position_lower
    IN  IF SumSeq(overlaps) = 0 \/ position_range = 0 THEN bins
        ELSE List([k \in 1..Len(bins) |->
                IF overlaps[k] > 0
                THEN LET overlap_proportion == FDiv(overlaps[k], position_range)
                     IN  [bins[k] EXCEPT
                            !.amount_weth = @ + FMul(position.amount_weth, overlap_proportion),
                            !.amount_usdt = @ + FMul(position.amount_usdt, overlap_proportion),
                            !.count_nfts =
                                IF 2 * overlaps[k] >= bins[k].priceUpper - bins[k].priceLower
                                THEN @ + 1 ELSE @]
                ELSE bins[k]])

\* faulty variant: the overlap is taken as a share of the bin, not of the position
distribute_by_bin_width(position, bins) ==
    LET position_lower == position.price_lower_afterdecimals
        position_upper == position.price_upper_afterdecimals
        overlaps == List([k \in 1..Len(bins) |->
                            calculate_overlap(position_lower, position_upper,
                                              bins[k].priceLower, bins[k].priceUpper)])
        position_range == position_upper - position_lower
    IN  IF SumSeq(overlaps) = 0 \/ position_range = 0 THEN bins
        ELSE List([k \in 1..Len(bins) |->
                IF overlaps[k] > 0
                THEN LET overlap_proportion ==
                             FDiv(overlaps[k], bins[k].priceUpper - bins[k].priceLower)
                     IN  [bins[k] EXCEPT
                            !.amount_weth = @ + FMul(position.amount_weth, overlap_proportion),
                            !.amount_usdt = @ + FMul(position.amount_usdt, overlap_proportion),
                            !.count_nfts = @ + 1]
                ELSE bins[k]])

\* the bins after one position has been distributed into them
distribute_position_to_bins(position, bins) ==
    LET position_lower == position.price_lower_afterdecimals
        position_upper == position.price_upper_afterdecimals
        overlaps == List([k \in 1..Len(bins) |->
                            calculate_overlap(position_lower, position_upper,
                                              bins[k].priceLower, bins[k].priceUpper)])
        total_overlap == SumSeq(overlaps)
        position_range == position_upper - position_lower
    IN  IF total_overlap = 0 THEN bins
        ELSE IF position_range = 0 THEN bins
        ELSE List([k \in 1..Len(bins) |->
                IF overlaps[k] > 0
                THEN LET overlap_proportion == FDiv(overlaps[k], position_range)
                     IN  [bins[k] EXCEPT
                            !.amount_weth = @ + FMul(position.amount_weth, overlap_proportion),
                            !.amount_usdt = @ + FMul(position.amount_usdt, overlap_proportion),
                            !.count_nfts = @ + 1]
                ELSE bins[k]])

RECURSIVE DistributeAll(_, _)
DistributeAll(positions, bins) ==
    IF positions = <<>> THEN bins
    ELSE \* the bins are updated in place before the next position is taken
         LET updated == distribute_position_to_bins(Head(positions), bins)
         IN  IF Len(updated) = Len(bins) THEN DistributeAll(Tail(positions), updated)
             ELSE updated

create_bins_from_data(positions, num_bins) ==
    IF positions = <<>> THEN Raise(<<"No", "positions", "provided">>)
    ELSE LET valid_positions == filter_valid_positions(positions, F(MIN_REASONABLE_PRICE),
                                                       F(MAX_REASONABLE_PRICE))
             range == find_price_range(valid_positions)
             bins == create_bins(ValueOf(range)[1], ValueOf(range)[2], num_bins)
         IN  IF valid_positions = <<>>
             THEN Raise(<<"No", "valid", "positions", "after", "filtering">>)
             ELSE IF ~range.ok THEN range
             ELSE IF ~bins.ok THEN bins
             ELSE Ok(DistributeAll(valid_positions, ValueOf(bins)))

-----------------------------------------------------------------------------
(* recommender_service.py *)

calculate_total_liquidity(bin) ==
    LET mid_price == IF bin.priceLower > 0 /\ bin.priceUpper > 0
                     THEN (bin.priceLower + bin.priceUpper) \div 2 ELSE 0
    IN  bin.amount_usdt + FMul(bin.amount_weth, mid_price)

\* a copy of the bin with its total_liquidity
WithLiquidity(bin) ==
    [bin_index |-> bin.bin_index, priceLower |-> bin.priceLower,
     priceUpper |-> bin.priceUpper, amount_weth |-> bin.amount_weth,
     amount_usdt |-> bin.amount_usdt, count_nfts |-> bin.count_nfts,
     total_liquidity |-> calculate_total_liquidity(bin)]

\* faulty variant: x placed before the elements of equal key, an unstable sort
RECURSIVE InsertDescBeforeEqual(_, _)
InsertDescBeforeEqual(x, s) ==
    IF s = <<>> THEN <<x>>
    ELSE IF x.total_liquidity >= Head(s).total_liquidity THEN <<x>> \o s
    ELSE <<Head(s)>> \o InsertDescBeforeEqual(x, Tail(s))

\* x placed behind every element whose key is at least its own
RECURSIVE InsertDesc(_, _)
InsertDesc(x, s) ==
    IF s = <<>> THEN <<x>>
    ELSE IF x.total_liquidity > Head(s).total_liquidity THEN <<x>> \o s
    ELSE <<Head(s)>> \o InsertDesc(x, Tail(s))

\* sorted(..., key=total_liquidity, reverse=True): stable, descending
RECURSIVE SortedDesc(_)
SortedDesc(s) ==
    IF s = <<>> THEN <<>>
    ELSE InsertDesc(s[Len(s)], SortedDesc(SubSeq(s, 1, Len(s) - 1)))

get_top_liquidity_bands(bins, top_n) ==
    Take(SortedDesc(List([k \in 1..Len(bins) |-> WithLiquidity(bins[k])])), top_n)

\* the float of a volume response body: None when the aggregate is missing
parse_trading_volume(body) == IF IsNone(body) THEN 0 ELSE Val(body)

WithVolume(band, volume) ==
    [bin_index |-> band.bin_index, priceLower |-> band.priceLower,
     priceUpper |-> band.priceUpper, amount_weth |-> band.amount_weth,
     amount_usdt |-> band.amount_usdt, count_nfts |-> band.count_nfts,
     total_liquidity |-> band.total_liquidity, trading_volume_24h |-> volume]

\* the volume recorded for the k-th selected band, given what its fetch did
BandVolume(band, outcome) ==
    IF band.priceLower > 0 /\ band.priceUpper > 0
    THEN IF outcome.kind = "ok" THEN parse_trading_volume(outcome.body) ELSE 0
    ELSE 0

-----------------------------------------------------------------------------
(* The upstream data source: what one call to it may do *)

MintCall(id, token0, token1, tick_lower, tick_upper, amount0, amount1) ==
    [n_arguments |-> 11, token0 |-> token0, token1 |-> token1,
     tick_lower |-> Some(tick_lower), tick_upper |-> Some(tick_upper),
     nft_id |-> Some(id), amount0 |-> Some(amount0), amount1 |-> Some(amount1),
     time |-> Some("2025-01-01T00:00:00Z")]

WethChecksummed == "0xC02aaA39b223FE8D0A0e5C4F27eAD9083C756Cc2"
OtherToken == "0x6b175474e89094c44da98b954eedeac495271d0f"

\* a mint of another pair: extraction yields nothing for it
ForeignMint == MintCall(9, WethChecksummed, OtherToken, -207243, -206290,
                        Raw(1000, 15), Raw(1000, 18))

\* price ranges [1000,1100], [1050,1150], [2000,2100]
MintsThree ==
    << MintCall(1, WethChecksummed, USDT_ADDRESS, -207243, -206290, Raw(2000, 15), Raw(1000, 6)),
       MintCall(2, WETH_ADDRESS, USDT_ADDRESS, -206755, -205845, Raw(1000, 15), Raw(3000, 6)),
       MintCall(3, WETH_ADDRESS, USDT_ADDRESS, -200311, -199823, Raw(4000, 15), Raw(500, 6)) >>

\* price ranges [1000,1500], [1500,2000] and a record of another pair
MintsTwo ==
    << MintCall(4, WETH_ADDRESS, USDT_ADDRESS, -207243, -203188, Raw(3000, 15), Raw(2000, 6)),
       ForeignMint,
       MintCall(5, WETH_ADDRESS, USDT_ADDRESS, -203188, -200311, Raw(1500, 15), Raw(6000, 6)) >>

\* nothing of the tracked pair
MintsForeign == << ForeignMint >>

\* USDT in the token0 slot: the decimals-adjusted prices fall below the reasonable range
MintsUnreasonable ==
    << MintCall(6, USDT_ADDRESS, WETH_ADDRESS, -207243, -206290, Raw(1000, 6), Raw(2000, 15)) >>

MintBodies == {MintsThree, MintsTwo, MintsForeign, MintsUnreasonable}

HttpFailures == {429, 500}

\* an HTTP response [status, body], or a transport exception raised by requests.post
HttpResponse(status, body) == [kind |-> "response", status |-> status, body |-> body]
TransportException == [kind |-> "exception", status |-> 0, body |-> <<>>]

MintOutcomes ==
    {HttpResponse(HTTP_OK, b) : b \in MintBodies}
        \cup {HttpResponse(st, <<>>) : st \in HttpFailures}
        \cup {TransportException}

LiquidityCall(signature, id, amount0, amount1) ==
    [signature |-> signature, nft_id |-> Some(id),
     amount0 |-> Some(amount0), amount1 |-> Some(amount1)]

LiquidityEvents ==
    << LiquidityCall("increaseLiquidity", 1, Raw(1000, 15), Raw(500, 6)),
       LiquidityCall("decreaseLiquidity", 4, Raw(1000, 15), Raw(1000, 6)),
       LiquidityCall("collect", 5, Raw(1000, 15), Raw(1000, 6)),
       LiquidityCall("increaseLiquidity", 1, Raw(500, 15), Raw(500, 6)) >>

LiquidityBodies == {LiquidityEvents}

LiquidityOutcomes ==
    {HttpResponse(HTTP_OK, b) : b \in LiquidityBodies}
        \cup {HttpResponse(500, <<>>), TransportException}

\* what fetch_trading_volume does for the k-th band it is asked about
VolumeOk(v) == [kind |-> "ok", body |-> Some(v)]
VolumeNone == [kind |-> "http_error", body |-> None]
VolumeException == [kind |-> "exception", body |-> None]

VolumeScenarios ==
    { [k \in 1..TOP_N_DEFAULT |-> VolumeOk(F(1000 * k))],
      [k \in 1..TOP_N_DEFAULT |-> IF k = 2 THEN VolumeNone ELSE VolumeOk(F(1000 * k))],
      [k \in 1..TOP_N_DEFAULT |-> IF k = 2 THEN VolumeException ELSE VolumeOk(F(1000 * k))] }

-----------------------------------------------------------------------------
(* bitquery_service.py: the fetch functions *)

\* (response_data, status_code), or the exception of requests.post
fetch_mint_positions(outcome) ==
    IF outcome.kind = "exception" THEN Raise(<<"Connection", "aborted">>)
    ELSE IF outcome.status = HTTP_OK THEN Ok(<<Some(outcome.body), outcome.status>>)
    ELSE Ok(<<None, outcome.status>>)

fetch_liquidity_events(outcome) ==
    IF outcome.kind = "exception" THEN Raise(<<"Connection", "aborted">>)
    ELSE IF outcome.status = HTTP_OK THEN Ok(<<Some(outcome.body), outcome.status>>)
    ELSE Ok(<<None, outcome.status>>)

-----------------------------------------------------------------------------
(* app.py: state *)

VARIABLES
    cache,  \* the process-wide cache dict: bins, data, timestamp, total_positions
    now,    \* the wall clock, minutes
    last,   \* the request being answered: its arguments, the cache it found, its
            \* response and its upstream calls (NoRequest when the server is idle)
    hist,   \* history: the bins of the last completed refresh, the cache_timestamp
            \* it reported, and when the cached recommendations were completed
    conc,   \* requests served by concurrent threads: each thread's position and
            \* locals, and which thread's refresh wrote each cache field
    fn_call \* a function applied on its own: its name, its arguments, its result

vars == <<cache, now, last, hist, conc, fn_call>>

\* datetime.isoformat() of a naive local time, and of an aware UTC time
isoformat(t) == [minutes |-> t, utcoffset |-> ""]
isoformat_utc(t) == [minutes |-> t, utcoffset |-> "+00:00"]

\* how far the clock may advance between two reads of it
Delays(t) == {d \in {0, ClockStep} : t + d <= MaxClock}

-----------------------------------------------------------------------------
(* app.py: filter_bins_by_price_range and get_recommendations_data *)

\* faulty variant: a bin that only touches a bound is dropped
filter_bins_strictly(bins, price_lower, price_upper) ==
    IF IsNone(price_lower) /\ IsNone(price_upper) THEN bins
    ELSE SelectSeq(bins, LAMBDA bin :
            (IsNone(price_upper) \/ bin.priceLower < Val(price_upper))
            /\ (IsNone(price_lower) \/ bin.priceUpper > Val(price_lower)))

filter_bins_by_price_range(bins, price_lower, price_upper) ==
    IF IsNone(price_lower) /\ IsNone(price_upper) THEN bins
    ELSE SelectSeq(bins, LAMBDA bin :
            IF ~IsNone(price_lower) /\ ~IsNone(price_upper)
            THEN bin.priceLower <= Val(price_upper) /\ bin.priceUpper >= Val(price_lower)
            ELSE IF ~IsNone(price_lower)
            THEN bin.priceUpper >= Val(price_lower)
            ELSE bin.priceLower <= Val(price_upper))

has_price_filters(price_lower, price_upper) == ~IsNone(price_lower) \/ ~IsNone(price_upper)

\* faulty variant: an entry aged exactly CACHE_EXPIRATION_MINUTES still counts as valid
CacheAgeValidInclusive(c, t) == t - Val(c.timestamp) <= CACHE_EXPIRATION_MINUTES

\* faulty variant: the age is taken in seconds, the division by 60 forgotten
CacheAgeValidSeconds(c, t) == (t - Val(c.timestamp)) * 60 < CACHE_EXPIRATION_MINUTES

\* cache_age < CACHE_EXPIRATION_MINUTES, at clock reading t
CacheAgeValid(c, t) == t - Val(c.timestamp) < CACHE_EXPIRATION_MINUTES

\* the filtered request is served from the cached bins
UseCachedBins(c, t) ==
    ~IsNone(c.bins) /\ ~IsNone(c.timestamp) /\ CacheAgeValid(c, t)

\* the unfiltered request is served from the cached recommendations
UseCachedData(c, t, use_cache) ==
    use_cache /\ ~IsNone(c.data) /\ ~IsNone(c.timestamp) /\ CacheAgeValid(c, t)

CountWithPositions(bins) == Len(SelectSeq(bins, LAMBDA b : b.count_nfts > 0))

Metadata(total_positions, bins, analysis_date, cache_timestamp, price_lower, price_upper) ==
    [total_positions |-> total_positions,
     total_bins |-> Len(bins),
     bins_with_positions |-> CountWithPositions(bins),
     analysis_date |-> analysis_date,
     time_range_hours |-> TIME_RANGE_HOURS,
     cache_timestamp |-> cache_timestamp,
     price_filter_lower |-> price_lower,
     price_filter_upper |-> price_upper]

\* the dict returned: recommendations with metadata, or {'error': ...}
Recommendations(bands, metadata) ==
    [error |-> None, top_liquidity_bands |-> bands, metadata |-> Some(metadata)]
ErrorResult(words) ==
    [error |-> Some(words), top_liquidity_bands |-> <<>>, metadata |-> None]

\* top_n of the refresh
RefreshTopN(price_lower, price_upper) ==
    IF has_price_filters(price_lower, price_upper) THEN TOP_N_FILTERED ELSE TOP_N_DEFAULT

\* the number of volume fetches recommend_top_bands issues
VolumeFetchCount(bins, top_n, volume_fetches) ==
    LET n == IF Len(bins) <= top_n THEN Len(bins) ELSE top_n
        raising == {k \in 1..n : volume_fetches[k].kind = "exception"}
    IN  IF raising = {} THEN n ELSE CHOOSE k \in raising : \A j \in raising : k <= j

\* the error message for a mint fetch that did not return 200
MintErrorMessage(response_data, status_code) ==
    IF IsNone(response_data)
    THEN <<"Failed", "to", "fetch", "mint", "positions">>
    ELSE <<"Error", "fetching", "mint", "positions:", ToString(status_code)>>

\* cache['bins'], cache['total_positions'] after the bins are computed
StoreBins(c, bins, mint_positions) ==
    [c EXCEPT !.bins = Some(bins), !.total_positions = Some(Len(mint_positions))]

\* faulty variant: the recommendations are stored whether filtered or not
StoreResultAlways(c, t, filtered, recommendations) ==
    [c EXCEPT !.timestamp = Some(t), !.data = Some(recommendations)]

\* cache['timestamp'], cache['data'] at the end of a refresh
StoreResult(c, t, filtered, recommendations) ==
    IF ~filtered
    THEN [c EXCEPT !.timestamp = Some(t), !.data = Some(recommendations)]
    ELSE [c EXCEPT !.timestamp = Some(t)]

-----------------------------------------------------------------------------
(* app.py: api_recommendations *)

\* float() of a query argument: None when it raises ValueError
ParseFloat(text) ==
    CASE text = "1050" -> Some(F(1050))
      [] text = "1500" -> Some(F(1500))
      [] text = "2000" -> Some(F(2000))
      [] OTHER -> None

\* the price filter of an optional query argument
PriceArgument(arg) ==
    IF ~IsNone(arg) /\ Val(arg) # "" THEN ParseFloat(Val(arg)) ELSE None

\* faulty variant: the refresh argument is ignored
UseCacheArgumentIgnored(arg) == TRUE

UseCacheArgument(arg) == ~(~IsNone(arg) /\ Val(arg) = "true")

\* faulty variant: the comparison of the two bounds is reversed
InvalidRangeReversed(price_lower, price_upper) ==
    ~IsNone(price_lower) /\ ~IsNone(price_upper) /\ Val(price_lower) < Val(price_upper)

InvalidRange(price_lower, price_upper) ==
    ~IsNone(price_lower) /\ ~IsNone(price_upper) /\ Val(price_lower) > Val(price_upper)

\* str.lower() on the words of the error messages
Lower(word) ==
    CASE word = "Failed" -> "failed"
      [] word = "Error" -> "error"
      [] word = "No" -> "no"
      [] word = "Connection" -> "connection"
      [] word = "Invalid" -> "invalid"
      [] OTHER -> word

\* 'fetching' in result['error'].lower()
ErrorCode(words) ==
    IF \E i \in 1..Len(words) : Lower(words[i]) = "fetching"
    THEN HTTP_SERVER_ERROR ELSE HTTP_NOT_FOUND

InvalidRangeMessage ==
    <<"Invalid", "price", "range:", "lower", "price", "must", "be", "less", "than",
      "or", "equal", "to", "upper", "price">>

\* what a request did outside the process: whether it consulted the cache,
\* the upstream calls it issued, the status of the mint response and of the
\* liquidity response if one came, the positions parsed and the summary built
\* from them, the bands selected and what the volume fetch did for each
NoCalls ==
    [cache_consulted |-> FALSE, mint |-> 0, mint_status |-> None,
     liquidity |-> 0, volume |-> 0,
     liquidity_status |-> None, mint_positions |-> None, final_summary |-> None,
     top_liquidity |-> None, volume_fetches |-> None]

\* lines 93 and 129: the request looks into the cache
CacheConsulted(use_cache, price_lower, price_upper) ==
    has_price_filters(price_lower, price_upper) \/ use_cache

EmptyCache == [bins |-> None, data |-> None, timestamp |-> None, total_positions |-> None]

\* request.args and the parameters parsed from them
Request(query, refresh_arg, price_lower, price_upper, use_cache) ==
    [query |-> query, refresh_arg |-> refresh_arg,
     price_lower |-> price_lower, price_upper |-> price_upper, use_cache |-> use_cache]

\* no request is being answered
NoRequest ==
    [kind |-> "none", req |-> Request(<<>>, None, None, None, TRUE),
     started |-> 0, before |-> EmptyCache, status |-> 0,
     body |-> ErrorResult(<<>>), calls |-> NoCalls]

\* the request ends: the response and the state it leaves
Respond(req, status, body, c2, t2, calls, h2) ==
    /\ cache' = c2
    /\ now' = t2
    /\ hist' = h2
    /\ last' = [kind |-> "request", req |-> req, started |-> now, before |-> cache,
                status |-> status, body |-> body, calls |-> calls]
    /\ UNCHANGED <<conc, fn_call>>

\* get_recommendations_data returned `result`
Return(req, result, c2, t2, calls, h2) ==
    Respond(req,
            IF ~IsNone(result.error) THEN ErrorCode(Val(result.error)) ELSE HTTP_OK,
            result, c2, t2,
            [calls EXCEPT !.cache_consulted =
                CacheConsulted(req.use_cache, req.price_lower, req.price_upper)],
            h2)

\* api_recommendations without its except clause: the exception leaves the
\* handler and the endpoint sets no status and builds no error object
EscapedUncaught(req, words, c2, t2, calls, h2) ==
    Respond(req, 0, Recommendations(<<>>, <<>>), c2, t2,
            [calls EXCEPT !.cache_consulted =
                CacheConsulted(req.use_cache, req.price_lower, req.price_upper)],
            h2)

\* an exception escaped get_recommendations_data
Escaped(req, words, c2, t2, calls, h2) ==
    Respond(req, HTTP_SERVER_ERROR, ErrorResult(words), c2, t2,
            [calls EXCEPT !.cache_consulted =
                CacheConsulted(req.use_cache, req.price_lower, req.price_upper)],
            h2)

-----------------------------------------------------------------------------
(* The query arguments the clients send, and the pipeline tabulated over    *)
(* the data the upstream can return (each table entry is the function's     *)
(* value, computed once)                                                    *)

\* request.args of the queries: each argument absent (None) or a string
Query(price_lower, price_upper) == [price_lower |-> price_lower, price_upper |-> price_upper]

PriceQueries ==
    { Query(None, None),
      Query(Some(""), Some("abc")),
      Query(Some("1500"), None),
      Query(None, Some("1050")),
      Query(Some("1500"), Some("2000")),
      Query(Some("1500"), Some("1050")) }

RefreshArgs == {None, Some("true"), Some("1")}

FilterPrices ==
    {PriceArgument(q.price_lower) : q \in PriceQueries}
        \cup {PriceArgument(q.price_upper) : q \in PriceQueries}

UpstreamPositions == {parse_positions(b) : b \in MintBodies}
UpstreamDeltas == {parse_liquidity_events(b) : b \in LiquidityBodies} \cup {EmptyDict}
UpstreamSummaries ==
    {create_final_summary(p, d) : p \in UpstreamPositions, d \in UpstreamDeltas}

BinsTable == [s \in UpstreamSummaries |-> create_bins_from_data(s, NUM_BINS)]

UpstreamBins == {ValueOf(BinsTable[s]) : s \in {x \in UpstreamSummaries : BinsTable[x].ok}}

TopBandsTable ==
    [key \in {<<filter_bins_by_price_range(b, pl, pu), n>> :
                 b \in UpstreamBins, pl \in FilterPrices, pu \in FilterPrices,
                 n \in {TOP_N_FILTERED, TOP_N_DEFAULT}}
        |-> get_top_liquidity_bands(key[1], key[2])]

-----------------------------------------------------------------------------
(* recommender_service.py: recommend_top_bands *)

\* volume_fetches[k] is what fetch_volume_func does for the k-th selected band:
\* a 200 response, a non-200 response (None), or a transport exception
AttachVolumes(top_liquidity, volume_fetches) ==
    LET fetched(k) == top_liquidity[k].priceLower > 0 /\ top_liquidity[k].priceUpper > 0
        raises == {k \in 1..Len(top_liquidity) :
                      fetched(k) /\ volume_fetches[k].kind = "exception"}
    IN  IF raises # {}
        THEN Raise(<<"Connection", "aborted">>)
        ELSE Ok([top_liquidity_bands |->
                    List([k \in 1..Len(top_liquidity) |->
                        WithVolume(top_liquidity[k],
                                   BandVolume(top_liquidity[k], volume_fetches[k]))])])

recommend_top_bands(bins, top_n, volume_fetches) ==
    AttachVolumes(TopBandsTable[<<bins, top_n>>], volume_fetches)

-----------------------------------------------------------------------------
(* app.py: get_recommendations_data *)

\* faulty variant: the bands are the bin dicts themselves, so that what is
\* written into a band is written into the cached bin
BinsSharedWithBands(bins, bands) ==
    List([k \in 1..Len(bins) |->
            IF \E j \in 1..Len(bands) : bands[j].bin_index = bins[k].bin_index
            THEN bands[CHOOSE j \in 1..Len(bands) : bands[j].bin_index = bins[k].bin_index]
            ELSE bins[k]])

\* the bin dicts after the bands were built and annotated: every band is a
\* copy (bin.copy()), so the bins are as they were
BinsAfterBands(bins, bands) == bins

\* lines 93-121: recommendations recomputed from the cached bins
ServeFromCachedBins(req) ==
    \E volume_fetches \in VolumeScenarios, d \in Delays(now) :
      \E bins \in {filter_bins_by_price_range(Val(cache.bins),
                                              req.price_lower, req.price_upper)} :
        \E recommended \in {recommend_top_bands(bins, TOP_N_FILTERED, volume_fetches)} :
          LET calls == [NoCalls EXCEPT
                           !.volume = VolumeFetchCount(bins, TOP_N_FILTERED, volume_fetches),
                           !.top_liquidity = Some(TopBandsTable[<<bins, TOP_N_FILTERED>>]),
                           !.volume_fetches = Some(volume_fetches)]
              \* cache['total_positions'] is set whenever cache['bins'] is
              metadata == Metadata(Val(cache.total_positions), bins,
                                   isoformat_utc(now + d),
                                   isoformat(Val(cache.timestamp)),
                                   req.price_lower, req.price_upper)
          IN  IF ~recommended.ok
              THEN Escaped(req, recommended.error, cache, now + d, calls, hist)
              ELSE Return(req,
                          Recommendations(ValueOf(recommended).top_liquidity_bands,
                                          metadata),
                          [cache EXCEPT !.bins =
                              Some(BinsAfterBands(Val(cache.bins),
                                       ValueOf(recommended).top_liquidity_bands))],
                          now + d, calls, hist)

\* lines 210-256: the bins are stored, recommendations computed and stored
RefreshFromBins(req, bins, mint_positions, fetches) ==
    \E volume_fetches \in VolumeScenarios, d1 \in Delays(now) :
      \E d2 \in Delays(now + d1),
         filtered_bins \in {filter_bins_by_price_range(bins, req.price_lower,
                                                       req.price_upper)} :
        \E recommended \in {recommend_top_bands(filtered_bins,
                                RefreshTopN(req.price_lower, req.price_upper),
                                volume_fetches)} :
          LET c1 == StoreBins(cache, bins, mint_positions)
              calls == [fetches EXCEPT
                           !.volume = VolumeFetchCount(filtered_bins,
                                          RefreshTopN(req.price_lower, req.price_upper),
                                          volume_fetches),
                           !.top_liquidity =
                               Some(TopBandsTable[<<filtered_bins,
                                        RefreshTopN(req.price_lower, req.price_upper)>>]),
                           !.volume_fetches = Some(volume_fetches)]
              metadata == Metadata(Len(mint_positions), filtered_bins,
                                   isoformat_utc(now + d1), isoformat(now + d1),
                                   req.price_lower, req.price_upper)
              recommendations ==
                  Recommendations(ValueOf(recommended).top_liquidity_bands, metadata)
              filtered == has_price_filters(req.price_lower, req.price_upper)
              h2 == [refresh_bins |-> Some(bins),
                     refresh_reported |-> Some(isoformat(now + d1)),
                     data_completed |-> IF filtered THEN hist.data_completed
                                        ELSE Some(now + d1 + d2)]
          IN  IF ~recommended.ok
              THEN Return(req, ErrorResult(recommended.error), c1, now + d1, calls, hist)
              ELSE Return(req, recommendations,
                          StoreResult(c1, now + d1 + d2, filtered, recommendations),
                          now + d1 + d2, calls, h2)

\* lines 182-189: the liquidity deltas, none when the fetch did not return 200
LiquidityEventCounts(liquidity_data, liquidity_status_code) ==
    IF liquidity_status_code = HTTP_OK
    THEN parse_liquidity_events(Val(liquidity_data)) ELSE EmptyDict

\* lines 176-208: liquidity events, final summary, bins
RefreshFromPositions(req, mint_positions, fetches) ==
    \E liquidity_outcome \in LiquidityOutcomes :
      \E fetched \in {fetch_liquidity_events(liquidity_outcome)} :
        LET calls == [fetches EXCEPT
                         !.liquidity = 1,
                         !.liquidity_status = IF fetched.ok THEN Some(ValueOf(fetched)[2])
                                              ELSE None,
                         !.mint_positions = Some(mint_positions)]
        IN  IF ~fetched.ok
            THEN Return(req, ErrorResult(fetched.error), cache, now, calls, hist)
            ELSE \E final_summary \in {create_final_summary(mint_positions,
                                           LiquidityEventCounts(ValueOf(fetched)[1],
                                                                ValueOf(fetched)[2]))} :
                   \E bins \in {BinsTable[final_summary]} :
                     IF ~bins.ok
                     THEN Return(req, ErrorResult(bins.error), cache, now,
                                 [calls EXCEPT !.final_summary = Some(final_summary)], hist)
                     ELSE RefreshFromBins(req, ValueOf(bins), mint_positions,
                                 [calls EXCEPT !.final_summary = Some(final_summary)])

\* lines 141-174: the mint positions are fetched and parsed
Refresh(req) ==
    \E mint_outcome \in MintOutcomes :
      \E fetched \in {fetch_mint_positions(mint_outcome)} :
        LET response_data == ValueOf(fetched)[1]
            status_code == ValueOf(fetched)[2]
            calls == [NoCalls EXCEPT
                         !.mint = 1,
                         !.mint_status = IF fetched.ok THEN Some(status_code) ELSE None]
        IN  IF ~fetched.ok
            THEN Return(req, ErrorResult(fetched.error), cache, now, calls, hist)
            ELSE IF status_code # HTTP_OK
            THEN Return(req, ErrorResult(MintErrorMessage(response_data, status_code)),
                        cache, now, calls, hist)
            ELSE \E mint_positions \in {parse_positions(Val(response_data))} :
                   IF mint_positions = <<>>
                   THEN Return(req, ErrorResult(<<"No", "mint", "positions", "found">>),
                               cache, now, calls, hist)
                   ELSE RefreshFromPositions(req, mint_positions, calls)

get_recommendations_data(req) ==
    IF has_price_filters(req.price_lower, req.price_upper) /\ UseCachedBins(cache, now)
    THEN ServeFromCachedBins(req)
    ELSE IF ~has_price_filters(req.price_lower, req.price_upper)
            /\ UseCachedData(cache, now, req.use_cache)
    THEN Return(req, Val(cache.data), cache, now, NoCalls, hist)
    ELSE Refresh(req)

-----------------------------------------------------------------------------
(* The requests and the clock *)

\* GET /api/recommendations?price_lower=..&price_upper=..&refresh=..
api_recommendations ==
    /\ last = NoRequest
    /\ \E query \in PriceQueries, refresh_arg \in RefreshArgs :
           LET req == Request(query, refresh_arg,
                              PriceArgument(query.price_lower),
                              PriceArgument(query.price_upper),
                              UseCacheArgument(refresh_arg))
           IN  IF InvalidRange(req.price_lower, req.price_upper)
               THEN Respond(req, HTTP_BAD_REQUEST, ErrorResult(InvalidRangeMessage),
                            cache, now, NoCalls, hist)
               ELSE get_recommendations_data(req)

\* the response has been sent: the server is idle again
ResponseSent ==
    /\ last # NoRequest
    /\ last' = NoRequest
    /\ UNCHANGED <<cache, now, hist, conc, fn_call>>

\* time passes between requests
Tick ==
    /\ last = NoRequest
    /\ now + ClockStep <= MaxClock
    /\ now' = now + ClockStep
    /\ UNCHANGED <<cache, last, hist, conc, fn_call>>

NoHistory == [refresh_bins |-> None, refresh_reported |-> None, data_completed |-> None]

\* no function is applied on its own
NoCall == [fn |-> "none"]

\* no request is served concurrently
NoThreads == [thread |-> <<>>, writer |-> <<>>]

Init ==
    /\ cache = EmptyCache
    /\ now = 0
    /\ last = NoRequest
    /\ hist = NoHistory
    /\ conc = NoThreads
    /\ fn_call = NoCall

Next == api_recommendations \/ ResponseSent \/ Tick

Spec == Init /\ [][Next]_vars

-----------------------------------------------------------------------------
(* Concurrent requests.  The server runs each request in a thread of its    *)
(* own and the cache dict has no lock: get_recommendations_data is split    *)
(* here at every read and write of a cache field.  Each thread serves one   *)
(* request; its upstream calls succeed.  conc.writer names, for each cache  *)
(* field, the refresh that wrote it (0: the refresh that seeded the cache). *)

NumThreads == 2
Threads == 1..NumThreads

\* the refresh that ran before the threads start, when the cache starts warm
SeedPositions == parse_positions(MintsThree)
SeedBins ==
    ValueOf(BinsTable[create_final_summary(SeedPositions,
                                           parse_liquidity_events(LiquidityEvents))])
AllVolumesOk == [k \in 1..TOP_N_DEFAULT |-> VolumeOk(F(1000 * k))]
SeedRecommendations ==
    Recommendations(
        ValueOf(recommend_top_bands(SeedBins, TOP_N_DEFAULT, AllVolumesOk)).top_liquidity_bands,
        Metadata(Len(SeedPositions), SeedBins, isoformat_utc(0), isoformat(0), None, None))
WarmCache ==
    StoreResult(StoreBins(EmptyCache, SeedBins, SeedPositions), 0, FALSE, SeedRecommendations)

\* the requests the threads serve
ThreadRequests ==
    { Request(Query(None, None), None, None, None, TRUE),
      Request(Query(None, None), Some("true"), None, None, FALSE),
      Request(Query(None, Some("1050")), None, None, PriceArgument(Some("1050")), TRUE) }

\* the mint response bodies the threads' refreshes receive
ThreadMintBodies == {MintsThree, MintsTwo}

NoneSeen == [bins |-> None, total_positions |-> None, timestamp |-> None, data |-> None]

\* a thread before its request arrives
ThreadIdle ==
    [pc |-> "start", req |-> Request(<<>>, None, None, None, TRUE),
     bins |-> <<>>, total_positions |-> 0, recommendations |-> ErrorResult(<<>>),
     seen |-> NoneSeen]

SeedWriter == [bins |-> 0, total_positions |-> 0, timestamp |-> 0, data |-> 0]
NoWriter == NoneSeen

ConcInit ==
    /\ now = 0
    /\ last = NoRequest
    /\ hist = NoHistory
    /\ fn_call = NoCall
    /\ \/ cache = EmptyCache /\ conc = [thread |-> [t \in Threads |-> ThreadIdle],
                                         writer |-> NoWriter]
       \/ cache = WarmCache /\ conc = [thread |-> [t \in Threads |-> ThreadIdle],
                                        writer |-> [f \in DOMAIN SeedWriter |->
                                                       Some(SeedWriter[f])]]

\* thread t moves to `local`; the cache becomes c2, written by `writer`
ThreadStep(t, local, c2, writer) ==
    /\ conc' = [thread |-> [conc.thread EXCEPT ![t] = local], writer |-> writer]
    /\ cache' = c2
    /\ UNCHANGED <<now, last, hist, fn_call>>

\* lines 86-131: the request arrives and the cache is tested
Enter(t) ==
    /\ conc.thread[t].pc = "start"
    /\ \E req \in ThreadRequests :
         LET filtered == has_price_filters(req.price_lower, req.price_upper)
             pc == IF filtered /\ UseCachedBins(cache, now) THEN "copy_bins"
                   ELSE IF ~filtered /\ UseCachedData(cache, now, req.use_cache)
                   THEN "return_data"
                   ELSE "fetch"
         IN  ThreadStep(t, [conc.thread[t] EXCEPT
                               !.pc = pc, !.req = req,
                               \* lines 129-130 read the timestamp the data is judged by
                               !.seen.timestamp = IF pc = "return_data"
                                                  THEN conc.writer.timestamp ELSE None],
                        cache, conc.writer)

\* line 97: bins = cache['bins'].copy()
CopyBins(t) ==
    /\ conc.thread[t].pc = "copy_bins"
    /\ ThreadStep(t, [conc.thread[t] EXCEPT
                         !.pc = "read_total_positions",
                         !.bins = Val(cache.bins),
                         !.seen.bins = conc.writer.bins],
                  cache, conc.writer)

\* line 110: cache.get('total_positions', 0), after the recommendations are computed
ReadTotalPositions(t) ==
    /\ conc.thread[t].pc = "read_total_positions"
    /\ ThreadStep(t, [conc.thread[t] EXCEPT
                         !.pc = "read_timestamp",
                         !.total_positions = IF IsNone(cache.total_positions) THEN 0
                                             ELSE Val(cache.total_positions),
                         !.seen.total_positions = conc.writer.total_positions],
                  cache, conc.writer)

\* lines 113-121: cache['timestamp'].isoformat(), and the recommendations are returned
ReadTimestamp(t) ==
    /\ conc.thread[t].pc = "read_timestamp"
    /\ \E bins \in {filter_bins_by_price_range(conc.thread[t].bins,
                                                conc.thread[t].req.price_lower,
                                                conc.thread[t].req.price_upper)} :
         ThreadStep(t, [conc.thread[t] EXCEPT
                           !.pc = "done",
                           !.recommendations =
                               Recommendations(
                                   ValueOf(recommend_top_bands(bins, TOP_N_FILTERED,
                                               AllVolumesOk)).top_liquidity_bands,
                                   Metadata(conc.thread[t].total_positions, bins,
                                            isoformat_utc(now),
                                            isoformat(Val(cache.timestamp)),
                                            conc.thread[t].req.price_lower,
                                            conc.thread[t].req.price_upper)),
                           !.seen.timestamp = conc.writer.timestamp],
                    cache, conc.writer)

\* line 133: return cache['data']; the timestamp was read at lines 129-130
ReturnCachedData(t) ==
    /\ conc.thread[t].pc = "return_data"
    /\ ThreadStep(t, [conc.thread[t] EXCEPT
                         !.pc = "done",
                         !.recommendations = Val(cache.data),
                         !.seen.data = conc.writer.data],
                  cache, conc.writer)

\* lines 141-208: the upstream is fetched and the bins are computed
FetchAndBin(t) ==
    /\ conc.thread[t].pc = "fetch"
    /\ \E body \in ThreadMintBodies :
         \E mint_positions \in {parse_positions(body)} :
           \E bins \in {BinsTable[create_final_summary(mint_positions,
                                      parse_liquidity_events(LiquidityEvents))]} :
             ThreadStep(t, [conc.thread[t] EXCEPT
                               !.pc = "store_bins",
                               !.bins = ValueOf(bins),
                               !.total_positions = Len(mint_positions)],
                        cache, conc.writer)

\* line 211: cache['bins'] = bins
WriteBins(t) ==
    /\ conc.thread[t].pc = "store_bins"
    /\ ThreadStep(t, [conc.thread[t] EXCEPT !.pc = "store_total_positions"],
                  [cache EXCEPT !.bins = Some(conc.thread[t].bins)],
                  [conc.writer EXCEPT !.bins = Some(t)])

\* line 212: cache['total_positions'] = len(mint_positions)
WriteTotalPositions(t) ==
    /\ conc.thread[t].pc = "store_total_positions"
    /\ ThreadStep(t, [conc.thread[t] EXCEPT !.pc = "recommend"],
                  [cache EXCEPT !.total_positions = Some(conc.thread[t].total_positions)],
                  [conc.writer EXCEPT !.total_positions = Some(t)])

\* lines 214-243: the recommendations and their metadata
Recommend(t) ==
    /\ conc.thread[t].pc = "recommend"
    /\ \E bins \in {filter_bins_by_price_range(conc.thread[t].bins,
                                                conc.thread[t].req.price_lower,
                                                conc.thread[t].req.price_upper)} :
         ThreadStep(t, [conc.thread[t] EXCEPT
                           !.pc = "store_timestamp",
                           !.recommendations =
                               Recommendations(
                                   ValueOf(recommend_top_bands(bins,
                                       RefreshTopN(conc.thread[t].req.price_lower,
                                                   conc.thread[t].req.price_upper),
                                       AllVolumesOk)).top_liquidity_bands,
                                   Metadata(conc.thread[t].total_positions, bins,
                                            isoformat_utc(now), isoformat(now),
                                            conc.thread[t].req.price_lower,
                                            conc.thread[t].req.price_upper))],
                    cache, conc.writer)

\* line 249: cache['timestamp'] = datetime.now()
WriteTimestamp(t) ==
    /\ conc.thread[t].pc = "store_timestamp"
    /\ ThreadStep(t, [conc.thread[t] EXCEPT
                         !.pc = IF has_price_filters(conc.thread[t].req.price_lower,
                                                     conc.thread[t].req.price_upper)
                                THEN "done" ELSE "store_data"],
                  [cache EXCEPT !.timestamp = Some(now)],
                  [conc.writer EXCEPT !.timestamp = Some(t)])

\* line 251: cache['data'] = recommendations
WriteData(t) ==
    /\ conc.thread[t].pc = "store_data"
    /\ ThreadStep(t, [conc.thread[t] EXCEPT !.pc = "done"],
                  [cache EXCEPT !.data = Some(conc.thread[t].recommendations)],
                  [conc.writer EXCEPT !.data = Some(t)])

\* time passes while requests are served
ConcTick ==
    /\ \E t \in Threads : conc.thread[t].pc # "done"
    /\ now + ClockStep <= MaxClock
    /\ now' = now + ClockStep
    /\ UNCHANGED <<cache, last, hist, conc, fn_call>>

ConcNext ==
    \/ \E t \in Threads :
          \/ Enter(t) \/ CopyBins(t) \/ ReadTotalPositions(t) \/ ReadTimestamp(t)
          \/ ReturnCachedData(t) \/ FetchAndBin(t) \/ WriteBins(t)
          \/ WriteTotalPositions(t) \/ Recommend(t) \/ WriteTimestamp(t) \/ WriteData(t)
    \/ ConcTick

SpecConc == ConcInit /\ [][ConcNext]_vars

-----------------------------------------------------------------------------
(* The functions applied on their own: the arguments are drawn at the start *)
(* and one step applies the function to them.                               *)

MaxBinList == 3

\* a bin dict
Bin(bin_index, priceLower, priceUpper, amount_weth, amount_usdt, count_nfts) ==
    [bin_index |-> bin_index, priceLower |-> priceLower, priceUpper |-> priceUpper,
     amount_weth |-> amount_weth, amount_usdt |-> amount_usdt, count_nfts |-> count_nfts]

\* bins to build argument lists from: two of equal value, one empty, one that
\* shares its range with another
SampleBins ==
    { Bin(0, F(1000), F(1020), F(1), 0, 1),
      Bin(1, F(1020), F(1040), 0, F(1010), 1),
      Bin(2, F(1040), F(1060), 0, 0, 0),
      Bin(3, F(1020), F(1040), F(2), F(500), 2) }

ListsOf(S, n) == UNION {[1..m -> S] : m \in 0..n}

SampleBinLists == ListsOf(SampleBins, MaxBinList)

\* the price bounds of a filter: absent, on a bin edge, inside a bin, beyond all bins
SampleBounds == {None, Some(F(1020)), Some(F(1030)), Some(F(1040)), Some(F(1070))}

FilterCalls ==
    { [fn |-> "filter_bins_by_price_range", returned |-> FALSE, result |-> <<>>,
       bins |-> bins, price_lower |-> lo, price_upper |-> hi] :
         bins \in SampleBinLists, lo \in SampleBounds, hi \in SampleBounds }

TopBandsCalls ==
    { [fn |-> "get_top_liquidity_bands", returned |-> FALSE, result |-> <<>>,
       bins |-> bins, top_n |-> top_n] :
         bins \in SampleBinLists, top_n \in 0..TOP_N_DEFAULT }

MaxPositions == 2
ManyPositions == 20

\* a summary position
Position(nft_id, price_lower, price_upper, amount_weth, amount_usdt) ==
    [nft_id |-> nft_id, create_time |-> Some("2025-01-01T00:00:00Z"),
     number_of_positions |-> 1,
     price_lower_afterdecimals |-> price_lower,
     price_upper_afterdecimals |-> price_upper,
     amount_weth |-> amount_weth, amount_usdt |-> amount_usdt]

\* two overlapping positions, one far below them, one below the reasonable
\* prices and one of no width
TypicalPosition == Position("101", F(1000), F(1200), F(2), F(400))
OverlappingPosition == Position("102", F(1100), F(1400), 0, F(90))
FarPosition == Position("103", F(200), F(300), F(1), F(100))
UnreasonablePosition == Position("104", F(50), F(1000), F(1), F(100))
DegeneratePosition == Position("105", F(1000), F(1000), F(1), F(100))

SamplePositions ==
    {TypicalPosition, OverlappingPosition, FarPosition, UnreasonablePosition,
     DegeneratePosition}

\* lists long enough for the 5th percentile index to leave the lowest bound out
LongPositionLists ==
    { [i \in 1..ManyPositions |-> IF i = 1 THEN FarPosition ELSE TypicalPosition],
      [i \in 1..ManyPositions |-> IF i % 2 = 1 THEN TypicalPosition
                                   ELSE OverlappingPosition] }

SamplePositionLists == ListsOf(SamplePositions, MaxPositions) \cup LongPositionLists

SampleNumBins == {2, 4, NUM_BINS}

BinsFromDataCalls ==
    { [fn |-> "create_bins_from_data", returned |-> FALSE, result |-> <<>>,
       positions |-> positions, num_bins |-> num_bins] :
         positions \in SamplePositionLists, num_bins \in SampleNumBins }

\* range bounds whose differences are multiples of every number of bins used,
\* so that the width of a bin is exact in the fixed-point arithmetic
SampleRangeBounds == {F(1000), F(1100), F(1200), F(1400)}

CreateBinsCalls ==
    { [fn |-> "create_bins", returned |-> FALSE, result |-> <<>>,
       min_price |-> min_price, max_price |-> max_price, num_bins |-> num_bins] :
         min_price \in SampleRangeBounds, max_price \in SampleRangeBounds,
         num_bins \in SampleNumBins \cup {1} }

\* positions inside one bin, split unevenly over two bins, and half below the bins
InsidePosition == Position("106", F(1020), F(1080), F(3), F(600))
SplitPosition == Position("107", F(1075), F(1175), F(4), F(400))
StraddlingPosition == Position("108", F(900), F(1100), F(2), F(200))

DistributePositions ==
    {TypicalPosition, OverlappingPosition, FarPosition, DegeneratePosition,
     InsidePosition, SplitPosition, StraddlingPosition}

\* bins as create_bins returns them, and bins that already hold a position
FreshBinLists ==
    { ValueOf(create_bins(F(1000), max_price, num_bins)) :
         max_price \in {F(1200), F(1400)}, num_bins \in {1, 2, 4} }

DistributeBinLists ==
    FreshBinLists
        \cup {distribute_position_to_bins(TypicalPosition, bins) : bins \in FreshBinLists}

DistributeCalls ==
    { [fn |-> "distribute_position_to_bins", returned |-> FALSE, result |-> <<>>,
       position |-> position, bins |-> bins] :
         position \in DistributePositions, bins \in DistributeBinLists }

\* a position dict that lacks one key
Without(position, key) == [k \in DOMAIN position \ {key} |-> position[k]]

\* positions whose bounds are absent or not positive
NoLowerPosition == Without(TypicalPosition, "price_lower_afterdecimals")
NoUpperPosition == Without(OverlappingPosition, "price_upper_afterdecimals")
ZeroLowerPosition == Position("109", 0, F(1300), F(1), F(100))

RangePositions ==
    {TypicalPosition, OverlappingPosition, FarPosition, NoLowerPosition,
     NoUpperPosition, ZeroLowerPosition}

\* a synthetic set: bounds spread uniformly, with extreme lower bounds on the
\* first few positions and extreme upper bounds on the last few
SyntheticPositions == 100
Outliers == 5

SyntheticPosition(i) ==
    Position("200",
             IF i <= Outliers THEN i ELSE F(1000 + 10 * i),
             IF i > SyntheticPositions - Outliers THEN F(1000000 + i)
             ELSE F(2000 + 10 * i),
             F(1), F(100))

SyntheticSet == [i \in 1..SyntheticPositions |-> SyntheticPosition(i)]

MaxRangeList == 3

\* long lists of valid positions in varying order
ValidRangePositions ==
    << TypicalPosition, OverlappingPosition, FarPosition, InsidePosition,
       SplitPosition, StraddlingPosition >>

MixedLongLists ==
    { [i \in 1..n |-> ValidRangePositions[((i * step + r) % Len(ValidRangePositions)) + 1]] :
        n \in {ManyPositions, 2 * ManyPositions}, step \in {1, 5},
        r \in 0..(Len(ValidRangePositions) - 1) }

FindRangeCalls ==
    { [fn |-> "find_price_range", returned |-> FALSE, result |-> <<>>,
       positions |-> positions] :
         positions \in ListsOf(RangePositions, MaxRangeList) \cup LongPositionLists
                           \cup MixedLongLists \cup {SyntheticSet} }

\* a position dict with the given bounds and amounts, None for an absent key
OptionalPosition(price_lower, price_upper, amount_weth, amount_usdt) ==
    LET given == [price_lower_afterdecimals |-> price_lower,
                  price_upper_afterdecimals |-> price_upper,
                  amount_weth |-> amount_weth, amount_usdt |-> amount_usdt]
        present == {k \in DOMAIN given : ~IsNone(given[k])}
    IN  [k \in {"nft_id"} \cup present |-> IF k = "nft_id" THEN "110" ELSE Val(given[k])]

\* bounds absent, outside the guard band, below and above the reasonable prices
SampleLowers == {None, Some(0), Some(F(50)), Some(F(1000)), Some(F(1200))}
SampleUppers == {None, Some(F(1000)), Some(F(1200)), Some(F(MAX_REASONABLE_PRICE) + 1)}

\* amounts absent, negative, zero, ordinary, at the ceiling and above it
SampleWeth == {None, Some(-1), Some(0), Some(F(2)), Some(F(MAX_WETH)), Some(F(MAX_WETH) + 1)}
SampleUsdt == {None, Some(-1), Some(F(400))}

ValidateCalls ==
    { [fn |-> "validate_position_prices", returned |-> FALSE, result |-> <<>>,
       position |-> OptionalPosition(price_lower, price_upper, amount_weth, amount_usdt),
       min_reasonable |-> min_reasonable,
       max_reasonable |-> F(MAX_REASONABLE_PRICE)] :
         price_lower \in SampleLowers, price_upper \in SampleUppers,
         amount_weth \in SampleWeth, amount_usdt \in SampleUsdt,
         min_reasonable \in {0, F(MIN_REASONABLE_PRICE)} }

\* call records: increases and decreases of two identifiers, a call of another
\* signature, a call without an identifier and a call without the first amount
SampleLiquidityCalls ==
    { LiquidityCall("increaseLiquidity", 1, Raw(1000, 15), Raw(500, 6)),
      LiquidityCall("decreaseLiquidity", 1, Raw(400, 15), Raw(100, 6)),
      LiquidityCall("increaseLiquidity", 4, Raw(300, 15), Raw(200, 6)),
      LiquidityCall("decreaseLiquidity", 4, Raw(300, 15), Raw(900, 6)),
      LiquidityCall("collect", 1, Raw(1000, 15), Raw(1000, 6)),
      [signature |-> "increaseLiquidity", nft_id |-> None,
       amount0 |-> Some(Raw(700, 15)), amount1 |-> Some(Raw(700, 6))],
      [signature |-> "decreaseLiquidity", nft_id |-> Some(1),
       amount0 |-> None, amount1 |-> Some(Raw(50, 6))] }

MaxCalls == 3

LiquidityEventsCalls ==
    { [fn |-> "parse_liquidity_events", returned |-> FALSE, result |-> <<>>,
       calls |-> calls] : calls \in ListsOf(SampleLiquidityCalls, MaxCalls) }

\* a parsed mint position
MintPosition(nft_id, token0, token1, price_lower, price_upper, amount0, amount1) ==
    [nft_id |-> nft_id, tick_lower |-> -207243, tick_upper |-> -206290,
     timestamp |-> "2025-01-01T00:00:00Z", token0 |-> token0, token1 |-> token1,
     price_lower_afterdecimals |-> price_lower,
     price_upper_afterdecimals |-> price_upper,
     amount0 |-> amount0, amount1 |-> amount1]

\* WETH as token0, USDT as token0, prices below the reasonable ones, and a
\* mint whose first amount was not recovered
SampleMintPositions ==
    { MintPosition(1, WETH_ADDRESS, USDT_ADDRESS, F(1000), F(1100),
                   Some(Raw(2000, 15)), Some(Raw(1000, 6))),
      MintPosition(4, USDT_ADDRESS, WETH_ADDRESS, F(1000), F(1100),
                   Some(Raw(1000, 6)), Some(Raw(2000, 15))),
      MintPosition(6, WETH_ADDRESS, USDT_ADDRESS, F(50), F(1000),
                   Some(Raw(1000, 15)), Some(Raw(1000, 6))),
      MintPosition(7, WETH_ADDRESS, USDT_ADDRESS, F(1050), F(1150),
                   None, Some(Raw(3000, 6))) }

\* no deltas; net increases; net decreases beyond the minted amounts
SampleLiquidityData ==
    { parse_liquidity_events(calls) : calls \in
        { <<>>,
          << LiquidityCall("increaseLiquidity", 1, Raw(1000, 15), Raw(500, 6)),
             LiquidityCall("decreaseLiquidity", 1, Raw(400, 15), Raw(100, 6)),
             LiquidityCall("increaseLiquidity", 4, Raw(500, 6), Raw(1000, 15)) >>,
          << LiquidityCall("decreaseLiquidity", 1, Raw(3000, 15), Raw(100, 6)),
             LiquidityCall("increaseLiquidity", 4, Raw(500, 6), Raw(1000, 15)),
             LiquidityCall("increaseLiquidity", 7, Raw(1000, 15), Raw(500, 6)) >>,
          << LiquidityCall("decreaseLiquidity", 4, Raw(100, 6), Raw(2500, 15)),
             LiquidityCall("decreaseLiquidity", 7, Raw(1000, 15), Raw(500, 6)) >> } }

MaxMints == 2

FinalSummaryCalls ==
    { [fn |-> "create_final_summary", returned |-> FALSE, result |-> <<>>,
       mint_positions |-> mint_positions, liquidity_data |-> liquidity_data] :
         mint_positions \in ListsOf(SampleMintPositions, MaxMints),
         liquidity_data \in SampleLiquidityData }

\* a mint call record with one field replaced
MintCallWith(field, value) ==
    [MintCall(1, WETH_ADDRESS, USDT_ADDRESS, -207243, -206290,
              Raw(2000, 15), Raw(1000, 6)) EXCEPT ![field] = value]

\* a mint call record of the given shape
MalformedMint(id, malformed) ==
    [k \in DOMAIN MintsTwo[1] \cup {"malformed"} |->
        IF k = "malformed" THEN malformed
        ELSE IF k = "nft_id" THEN Some(id) ELSE MintsTwo[1][k]]

\* records of the tracked pair in either order, of another pair, with one
\* argument, without a tick, an identifier, a timestamp or the amounts, and
\* records of a wrong shape
SampleMintRecords ==
    { MintsThree[1], MintsUnreasonable[1], ForeignMint,
      MintCallWith("n_arguments", 1),
      MintCallWith("tick_lower", None), MintCallWith("tick_upper", None),
      MintCallWith("nft_id", None), MintCallWith("time", None),
      [MintCallWith("amount0", None) EXCEPT !.amount1 = None],
      MalformedMint(7, "bad_integer"), MalformedMint(8, "null_argument") }

MaxRecords == 2

ParsePositionsCalls ==
    { [fn |-> "parse_positions", returned |-> FALSE, result |-> <<>>,
       calls |-> calls] : calls \in ListsOf(SampleMintRecords, MaxRecords) }

FnInit ==
    /\ cache = EmptyCache /\ now = 0 /\ last = NoRequest
    /\ hist = NoHistory /\ conc = NoThreads
    /\ \/ fn_call \in FilterCalls
       \/ fn_call \in TopBandsCalls
       \/ fn_call \in BinsFromDataCalls
       \/ fn_call \in CreateBinsCalls
       \/ fn_call \in DistributeCalls
       \/ fn_call \in FindRangeCalls
       \/ fn_call \in ValidateCalls
       \/ fn_call \in LiquidityEventsCalls
       \/ fn_call \in FinalSummaryCalls
       \/ fn_call \in ParsePositionsCalls

Returns(result) ==
    /\ ~fn_call.returned
    /\ fn_call' = [fn_call EXCEPT !.returned = TRUE, !.result = result]
    /\ UNCHANGED <<cache, now, last, hist, conc>>

CallFilterBins ==
    /\ fn_call.fn = "filter_bins_by_price_range"
    /\ Returns(filter_bins_by_price_range(fn_call.bins, fn_call.price_lower, fn_call.price_upper))

CallTopBands ==
    /\ fn_call.fn = "get_top_liquidity_bands"
    /\ Returns(get_top_liquidity_bands(fn_call.bins, fn_call.top_n))

CallCreateBinsFromData ==
    /\ fn_call.fn = "create_bins_from_data"
    /\ Returns(create_bins_from_data(fn_call.positions, fn_call.num_bins))

CallCreateBins ==
    /\ fn_call.fn = "create_bins"
    /\ Returns(create_bins(fn_call.min_price, fn_call.max_price, fn_call.num_bins))

CallDistribute ==
    /\ fn_call.fn = "distribute_position_to_bins"
    /\ Returns(distribute_position_to_bins(fn_call.position, fn_call.bins))

CallFindPriceRange ==
    /\ fn_call.fn = "find_price_range"
    /\ Returns(find_price_range(fn_call.positions))

CallValidatePosition ==
    /\ fn_call.fn = "validate_position_prices"
    /\ Returns(validate_position_prices(fn_call.position, fn_call.min_reasonable,
                                        fn_call.max_reasonable))

CallParseLiquidityEvents ==
    /\ fn_call.fn = "parse_liquidity_events"
    /\ Returns(parse_liquidity_events(fn_call.calls))

CallCreateFinalSummary ==
    /\ fn_call.fn = "create_final_summary"
    /\ Returns(create_final_summary(fn_call.mint_positions, fn_call.liquidity_data))

CallParsePositions ==
    /\ fn_call.fn = "parse_positions"
    /\ Returns(parse_positions_outcome(fn_call.calls))

FnNext ==
    \/ CallFilterBins
    \/ CallTopBands
    \/ CallCreateBinsFromData
    \/ CallCreateBins
    \/ CallDistribute
    \/ CallFindPriceRange
    \/ CallValidatePosition
    \/ CallParseLiquidityEvents
    \/ CallCreateFinalSummary
    \/ CallParsePositions

SpecFn == FnInit /\ [][FnNext]_vars

-----------------------------------------------------------------------------
(* Properties of the cache and query layer.  `last` is the request being    *)
(* answered: what it asked, the cache it found (before), the clock when it  *)
(* arrived (started), its response and the upstream calls it issued.        *)

Answered == last.kind = "request"

FilteredRequest ==
    Answered /\ (~IsNone(last.req.price_lower) \/ ~IsNone(last.req.price_upper))

UnfilteredRequest ==
    Answered /\ IsNone(last.req.price_lower) /\ IsNone(last.req.price_upper)

\* both bounds given, the lower above the upper
InvertedRange ==
    /\ Answered
    /\ ~IsNone(last.req.price_lower) /\ ~IsNone(last.req.price_upper)
    /\ Val(last.req.price_lower) > Val(last.req.price_upper)

\* the caller permits cache use: refresh=true was not sent
CachePermitted == last.req.refresh_arg # Some("true")

\* the age, when the request arrived, of the timestamp it found
FoundAge == last.started - Val(last.before.timestamp)

\* the request found bins, resp. a full recommendation, younger than the TTL
FoundWarmBins ==
    /\ ~IsNone(last.before.bins) /\ ~IsNone(last.before.timestamp)
    /\ FoundAge < CACHE_EXPIRATION_MINUTES

FoundWarmData ==
    /\ ~IsNone(last.before.data) /\ ~IsNone(last.before.timestamp)
    /\ FoundAge < CACHE_EXPIRATION_MINUTES

NoUpstreamCall ==
    last.calls.mint = 0 /\ last.calls.liquidity = 0 /\ last.calls.volume = 0

\* the bands of a response without the volumes attached to them
BandsOf(body) ==
    List([k \in 1..Len(body.top_liquidity_bands) |->
            LET band == body.top_liquidity_bands[k]
            IN  [bin_index |-> band.bin_index, priceLower |-> band.priceLower,
                 priceUpper |-> band.priceUpper, amount_weth |-> band.amount_weth,
                 amount_usdt |-> band.amount_usdt, count_nfts |-> band.count_nfts,
                 total_liquidity |-> band.total_liquidity]])

\* the top three bands of the bins of `bins` that overlap the request's range
TopThreeOfFiltered(bins) ==
    TopBandsTable[<<filter_bins_by_price_range(bins, last.req.price_lower,
                                               last.req.price_upper), 3>>]

\* C1: after a successful full refresh, a filtered request that finds the
\* cache younger than 10 minutes issues no mint fetch and no liquidity fetch,
\* and its bands are the top bands of the filtered subset of the bins that
\* refresh stored.
C1_WarmFilteredUsesRefreshBins ==
    (FilteredRequest /\ ~InvertedRange /\ FoundWarmBins /\ ~IsNone(hist.refresh_bins))
        => /\ last.calls.mint = 0
           /\ last.calls.liquidity = 0
           /\ last.status = HTTP_OK
                  => BandsOf(last.body) = TopThreeOfFiltered(Val(hist.refresh_bins))

\* C2: the cache_timestamp in the metadata of a filtered response served from
\* the cache equals the cache_timestamp the refresh reported in its own
\* response.
C2_CacheTimestampAsRefreshReported ==
    (FilteredRequest /\ FoundWarmBins /\ last.status = HTTP_OK)
        => Val(last.body.metadata).cache_timestamp = Val(hist.refresh_reported)

\* C3: an unfiltered request answered from the cache returns a recommendation
\* that a full refresh produced less than 10 minutes before the request.
C3_CachedDataYoungerThanTTL ==
    (UnfilteredRequest /\ last.status = HTTP_OK /\ last.calls.mint = 0)
        => last.started - Val(hist.data_completed) < CACHE_EXPIRATION_MINUTES

\* C4: an unfiltered request that may use the cache and finds a timestamp 10
\* minutes old or older fetches the mint positions afresh and does not return
\* the cached recommendation.
C4_StaleUnfilteredRefetches ==
    (UnfilteredRequest /\ CachePermitted /\ ~IsNone(last.before.timestamp)
        /\ FoundAge >= CACHE_EXPIRATION_MINUTES)
        => /\ last.calls.mint = 1
           /\ IsNone(last.before.data) \/ last.body # Val(last.before.data)

C4_Witness ==
    /\ UnfilteredRequest /\ CachePermitted
    /\ ~IsNone(last.before.data) /\ ~IsNone(last.before.timestamp)
    /\ FoundAge >= CACHE_EXPIRATION_MINUTES
    /\ last.calls.mint = 1 /\ last.status = HTTP_OK

\* C5: a request with both bounds given and the lower above the upper is
\* answered 400 without consulting the cache, without an upstream call, and
\* leaves the cache as it was.
C5_InvertedRangeRejectedFirst ==
    InvertedRange
        => /\ last.status = HTTP_BAD_REQUEST
           /\ ~last.calls.cache_consulted
           /\ NoUpstreamCall /\ IsNone(last.calls.mint_status)
           /\ cache = last.before
           /\ now = last.started

C5_Witness ==
    /\ InvertedRange /\ last.status = HTTP_BAD_REQUEST
    /\ ~IsNone(cache.bins) /\ ~IsNone(cache.data)

\* the mint fetch came back with a status other than 200
MintFetchFailed ==
    Answered /\ ~IsNone(last.calls.mint_status) /\ Val(last.calls.mint_status) # HTTP_OK

\* the upstream answered 200 and nothing usable came of it: no position
\* parsed, none valid, no price range
NoUsableData ==
    /\ Answered /\ last.calls.mint_status = Some(HTTP_OK)
    /\ ~IsNone(last.body.error) /\ Head(Val(last.body.error)) = "No"

\* C6: a mint fetch that fails with a non-success status (the client returns
\* no body) ends the request with status 500, not 404.
C6_MintFetchFailureIs500 ==
    MintFetchFailed => last.status = HTTP_SERVER_ERROR

\* C7: a request that finds the upstream reachable and nothing usable in it
\* ends with status 404, with an error text other than that of a mint-fetch
\* failure and a status other than that of a mint-fetch failure.
C7_NoDataDistinctFromFetchFailure ==
    NoUsableData
        => /\ last.status = HTTP_NOT_FOUND
           /\ \A status_code \in HttpFailures :
                  /\ Val(last.body.error) # MintErrorMessage(None, status_code)
                  /\ last.status # ErrorCode(MintErrorMessage(None, status_code))

\* C8: a filtered request that finds no bins younger than 10 minutes and
\* refreshes leaves in the cache the complete unfiltered bin list and the
\* number of mint positions, and the cached full recommendation is what it
\* was before: the filtered recommendation is returned, not stored.
C8_FilteredRefreshStoresUnfilteredBins ==
    (FilteredRequest /\ ~InvertedRange /\ ~FoundWarmBins)
        => /\ last.calls.mint = 1
           /\ cache.data = last.before.data
           /\ ~IsNone(cache.bins) => Len(Val(cache.bins)) = NUM_BINS
           /\ last.status = HTTP_OK
                  => /\ cache.bins = hist.refresh_bins
                     /\ cache.total_positions =
                            Some(Val(last.body.metadata).total_positions)
                     /\ Val(last.body.metadata).total_bins =
                            Len(filter_bins_by_price_range(Val(cache.bins),
                                    last.req.price_lower, last.req.price_upper))
                     /\ BandsOf(last.body) = TopThreeOfFiltered(Val(cache.bins))
                     /\ cache.data # Some(last.body)

C8_Witness ==
    /\ FilteredRequest /\ ~FoundWarmBins /\ last.status = HTTP_OK
    /\ ~IsNone(last.before.data) /\ cache.data = last.before.data
    /\ cache.bins # last.before.bins
    /\ Len(Val(cache.bins)) = NUM_BINS
    /\ Val(last.body.metadata).total_bins < NUM_BINS

\* C9: an unfiltered request that may use the cache and finds a full
\* recommendation with a timestamp less than 10 minutes old returns that
\* recommendation unchanged, issues no upstream call and writes nothing to
\* the cache.
C9_WarmUnfilteredReturnsCached ==
    (UnfilteredRequest /\ CachePermitted /\ FoundWarmData)
        => /\ last.status = HTTP_OK
           /\ last.body = Val(last.before.data)
           /\ NoUpstreamCall /\ IsNone(last.calls.mint_status)
           /\ cache = last.before

C9_Witness ==
    /\ UnfilteredRequest /\ CachePermitted /\ FoundWarmData
    /\ FoundAge > 0
    /\ last.body = Val(last.before.data)
    /\ Len(last.body.top_liquidity_bands) = TOP_N_DEFAULT

\* C10: refresh=true bypasses the cache for unfiltered requests only: an
\* unfiltered request with refresh=true fetches the mint positions whatever
\* the cache holds, and a filtered request with refresh=true that finds bins
\* less than 10 minutes old is served from them without a mint fetch.
C10_RefreshBypassesUnfilteredOnly ==
    /\ (UnfilteredRequest /\ last.req.refresh_arg = Some("true"))
          => /\ last.calls.mint = 1
             /\ ~last.calls.cache_consulted
             /\ last.status = HTTP_OK
                    => /\ last.calls.liquidity = 1
                       /\ cache.data = Some(last.body)
                       /\ cache.timestamp = Some(now)
    /\ (FilteredRequest /\ ~InvertedRange /\ last.req.refresh_arg = Some("true")
            /\ FoundWarmBins)
          => /\ last.calls.mint = 0 /\ last.calls.liquidity = 0
             /\ cache = last.before
             /\ last.status = HTTP_OK
                    => BandsOf(last.body) = TopThreeOfFiltered(Val(last.before.bins))

C10_Witness ==
    /\ UnfilteredRequest /\ last.req.refresh_arg = Some("true")
    /\ FoundWarmData /\ FoundAge > 0
    /\ last.calls.mint = 1 /\ last.status = HTTP_OK
    /\ last.body # Val(last.before.data)

\* the refreshes whose values thread t read from the cache
SeenBy(t) ==
    {Val(conc.thread[t].seen[f]) :
        f \in {g \in DOMAIN NoneSeen : ~IsNone(conc.thread[t].seen[g])}}

\* C11: with requests served concurrently, the cache fields a request reads
\* (bins, total position count, timestamp, full recommendation) all come
\* from one refresh, and once every request has finished the bins and the
\* timestamp in the cache are those of one refresh.
C11_ConsistentSnapshots ==
    /\ \A t \in DOMAIN conc.thread : Cardinality(SeenBy(t)) <= 1
    /\ (conc.thread # <<>> /\ \A t \in DOMAIN conc.thread : conc.thread[t].pc = "done")
          => conc.writer.bins = conc.writer.timestamp

\* the liquidity-delta fetch of the request was made and failed: a response
\* other than 200, or no response at all
LiquidityFetchFailed ==
    /\ Answered /\ last.calls.liquidity = 1
    /\ last.calls.liquidity_status # Some(HTTP_OK)

LiquidityFetchNot200 ==
    LiquidityFetchFailed /\ ~IsNone(last.calls.liquidity_status)

\* the amounts of a mint position after decimals, as <<weth, usdt>>
MintAmounts(position) ==
    LET is_weth_token0 == normalize_address(position.token0) = WETH_ADDRESS
        a0 == IF IsNone(position.amount0) THEN Raw(0, 0) ELSE Val(position.amount0)
        a1 == IF IsNone(position.amount1) THEN Raw(0, 0) ELSE Val(position.amount1)
        weth == IF is_weth_token0 THEN a0 ELSE a1
        usdt == IF is_weth_token0 THEN a1 ELSE a0
    IN  <<DecToFloat(weth.m, weth.e - WETH_DECIMALS),
          DecToFloat(usdt.m, usdt.e - USDT_DECIMALS)>>

\* the summary was built with no deltas, and what was computed from it is cached
CompletedWithoutDeltas ==
    /\ ~IsNone(last.calls.final_summary)
    /\ LET final_summary == Val(last.calls.final_summary)
           mint_positions == Val(last.calls.mint_positions)
       IN  /\ final_summary = create_final_summary(mint_positions, EmptyDict)
           /\ \A i \in 1..Len(final_summary) :
                 /\ final_summary[i].number_of_positions = 1
                 /\ \E j \in 1..Len(mint_positions) :
                       /\ mint_positions[j].nft_id = final_summary[i].nft_id
                       /\ <<final_summary[i].amount_weth, final_summary[i].amount_usdt>>
                              = MintAmounts(mint_positions[j])
           /\ BinsTable[final_summary].ok
                 => cache.bins = Some(ValueOf(BinsTable[final_summary]))
           /\ (last.status = HTTP_OK /\ UnfilteredRequest) => cache.data = Some(last.body)

\* C12: when the liquidity-delta fetch of a refresh fails, by a response other
\* than 200 or by a transport error, the refresh goes on with no deltas:
\* every summary position has number_of_positions 1 and the amounts of its
\* mint, and the bins and the recommendation are computed and cached.
C12_LiquidityFailureTolerated ==
    LiquidityFetchFailed => CompletedWithoutDeltas

\* the same for a response other than 200 alone
C12_Not200Tolerated ==
    LiquidityFetchNot200 => CompletedWithoutDeltas

\* the bands the request selected, and the selected bands whose volume fetch
\* failed: a response other than 200, or no response at all
SelectedBands == Val(last.calls.top_liquidity)

FailedVolumeFetches ==
    {k \in 1..Len(SelectedBands) : Val(last.calls.volume_fetches)[k].kind # "ok"}

Not200VolumeFetches ==
    {k \in 1..Len(SelectedBands) : Val(last.calls.volume_fetches)[k].kind = "http_error"}

\* every selected band is returned, a band whose fetch failed with volume 0 and
\* every other band with the volume fetched for it
EveryBandReturned ==
    /\ last.status = HTTP_OK
    /\ Len(last.body.top_liquidity_bands) = Len(SelectedBands)
    /\ \A k \in 1..Len(SelectedBands) :
          /\ last.body.top_liquidity_bands[k].bin_index = SelectedBands[k].bin_index
          /\ last.body.top_liquidity_bands[k].total_liquidity = SelectedBands[k].total_liquidity
          /\ last.body.top_liquidity_bands[k].trading_volume_24h =
                 IF k \in FailedVolumeFetches THEN 0
                 ELSE parse_trading_volume(Val(last.calls.volume_fetches)[k].body)

\* C13: a volume fetch that fails for one selected band, by a response other
\* than 200 or by a transport error, sets that band's trading_volume_24h to 0
\* and does not abort the others: every selected band is returned and every
\* other band has its own fetched volume.
C13_VolumeFailureIsolated ==
    (Answered /\ ~IsNone(last.calls.volume_fetches) /\ FailedVolumeFetches # {})
        => EveryBandReturned

\* the same for a response other than 200 alone
C13_Not200Isolated ==
    (Answered /\ ~IsNone(last.calls.volume_fetches)
        /\ FailedVolumeFetches # {} /\ FailedVolumeFetches = Not200VolumeFetches)
        => EveryBandReturned

\* the response is a recommendation object with status 200
RecommendationResponse ==
    /\ last.status = HTTP_OK
    /\ IsNone(last.body.error) /\ ~IsNone(last.body.metadata)

\* the response is an object with an error string and status 400, 404 or 500
ErrorResponse ==
    /\ last.status \in {HTTP_BAD_REQUEST, HTTP_NOT_FOUND, HTTP_SERVER_ERROR}
    /\ ~IsNone(last.body.error) /\ Val(last.body.error) # <<>>
    /\ IsNone(last.body.metadata) /\ last.body.top_liquidity_bands = <<>>

\* C14: every request that reaches the endpoint is answered by one structured
\* response, a recommendation object or an error string with status 400, 404
\* or 500; no failure of parsing, validation, range detection, binning or an
\* upstream call leaves the handler unhandled.
C14_StructuredResponse ==
    Answered => (RecommendationResponse \/ ErrorResponse)

\* an exception left get_recommendations_data (the volume fetch of a request
\* served from the cached bins raised) and was answered with status 500
C14_Witness ==
    /\ Answered /\ last.calls.mint = 0 /\ ~IsNone(last.calls.volume_fetches)
    /\ \E k \in 1..Len(SelectedBands) :
          Val(last.calls.volume_fetches)[k].kind = "exception"
    /\ last.status = HTTP_SERVER_ERROR /\ ErrorResponse

\* the function named has been applied to its arguments
Returned(fn) == fn_call.fn = fn /\ fn_call.returned

\* the rule of the price filter for one bin
InPriceRange(bin, price_lower, price_upper) ==
    /\ IsNone(price_lower) \/ bin.priceUpper >= Val(price_lower)
    /\ IsNone(price_upper) \/ bin.priceLower <= Val(price_upper)

\* seq[i] for the indices i of `kept`, in increasing order
Restriction(seq, kept) ==
    [j \in 1..Cardinality(kept) |->
        seq[CHOOSE i \in kept : Cardinality({x \in kept : x <= i}) = j]]

\* C15: price filtering keeps exactly the bins that satisfy the rule for the
\* bounds given (bin upper >= lower when a lower bound is given, bin lower <=
\* upper when an upper bound is given), in their original order, and with no
\* bound returns all bins.
C15_FilterKeepsOverlappingInOrder ==
    Returned("filter_bins_by_price_range")
        => /\ fn_call.result =
                 Restriction(fn_call.bins,
                     {i \in 1..Len(fn_call.bins) :
                         InPriceRange(fn_call.bins[i], fn_call.price_lower, fn_call.price_upper)})
           /\ (IsNone(fn_call.price_lower) /\ IsNone(fn_call.price_upper))
                 => fn_call.result = fn_call.bins

\* both bounds given; a bin that only touches the lower bound is kept, another
\* bin is dropped, and two bins are kept in their order
C15_Witness ==
    /\ Returned("filter_bins_by_price_range")
    /\ ~IsNone(fn_call.price_lower) /\ ~IsNone(fn_call.price_upper)
    /\ Len(fn_call.bins) = 3 /\ Len(fn_call.result) = 2
    /\ \E i \in 1..Len(fn_call.result) : fn_call.result[i].priceUpper = Val(fn_call.price_lower)
    /\ fn_call.result[1] # fn_call.result[2]

\* amount_usdt + amount_weth * midpoint of the bin
BandValue(bin) ==
    bin.amount_usdt + FMul(bin.amount_weth, (bin.priceLower + bin.priceUpper) \div 2)

Min(a, b) == IF a <= b THEN a ELSE b

\* the place of bins[i] when the bins are ranked by value, the larger first
\* and of two equal ones the earlier first
Rank(bins, i) ==
    1 + Cardinality({j \in 1..Len(bins) :
                        \/ BandValue(bins[j]) > BandValue(bins[i])
                        \/ BandValue(bins[j]) = BandValue(bins[i]) /\ j < i})

\* the bin dict without the total_liquidity the result adds to it
WithoutLiquidity(band) ==
    Bin(band.bin_index, band.priceLower, band.priceUpper,
        band.amount_weth, band.amount_usdt, band.count_nfts)

\* C16: top_bands(bins, k) returns min(k, len(bins)) bins in non-increasing
\* order of band_value, bins of equal value in their original order, no bin
\* left out has a strictly larger value than a bin returned, and top_bands
\* of the result is the result; the API uses k = 3 for filtered requests and
\* k = 5 for unfiltered ones.
C16_TopBandsRankedStable ==
    Returned("get_top_liquidity_bands")
        => /\ Len(fn_call.result) = Min(fn_call.top_n, Len(fn_call.bins))
           /\ \A r \in 1..Len(fn_call.result) :
                 \E i \in 1..Len(fn_call.bins) :
                   /\ Rank(fn_call.bins, i) = r
                   /\ WithoutLiquidity(fn_call.result[r]) = fn_call.bins[i]
                   /\ fn_call.result[r].total_liquidity = BandValue(fn_call.bins[i])
           /\ \A r \in 1..Len(fn_call.result), q \in 1..Len(fn_call.result) :
                 r < q => fn_call.result[r].total_liquidity >= fn_call.result[q].total_liquidity
           /\ \A i \in 1..Len(fn_call.bins) :
                 Rank(fn_call.bins, i) > Len(fn_call.result)
                     => \A r \in 1..Len(fn_call.result) :
                          BandValue(fn_call.bins[i]) <= fn_call.result[r].total_liquidity
           /\ get_top_liquidity_bands(fn_call.result, fn_call.top_n) = fn_call.result
           /\ RefreshTopN(Some(F(1020)), None) = 3 /\ TOP_N_FILTERED = 3
           /\ RefreshTopN(None, None) = 5

\* two bins of equal value are returned, the one that came first in the
\* argument first although it was not the first argument, and a bin is left out
C16_Witness ==
    /\ Returned("get_top_liquidity_bands")
    /\ Len(fn_call.bins) = 3 /\ fn_call.top_n = 2 /\ Len(fn_call.result) = 2
    /\ fn_call.result[1].total_liquidity = fn_call.result[2].total_liquidity
    /\ fn_call.result[1].bin_index # fn_call.result[2].bin_index
    /\ WithoutLiquidity(fn_call.result[1]) = fn_call.bins[2]
    /\ WithoutLiquidity(fn_call.result[2]) = fn_call.bins[3]

\* the positions of the call that pass the filter
ValidPositions ==
    filter_valid_positions(fn_call.positions, F(MIN_REASONABLE_PRICE), F(MAX_REASONABLE_PRICE))

\* the position touches the bin: their intervals overlap, however little
Touches(position, bin) ==
    /\ position.price_lower_afterdecimals < bin.priceUpper
    /\ bin.priceLower < position.price_upper_afterdecimals
    /\ position.price_lower_afterdecimals < position.price_upper_afterdecimals

\* every valid position is counted in a bin of the list
EveryValidPositionDistributed(bins) ==
    \A i \in 1..Len(ValidPositions) :
      \E k \in 1..Len(bins) : Touches(ValidPositions[i], bins[k]) /\ bins[k].count_nfts > 0

BinningRunContract ==
    IF fn_call.positions = <<>> \/ ValidPositions = <<>>
           \/ ~find_price_range(ValidPositions).ok
    THEN ~fn_call.result.ok
    ELSE /\ fn_call.result.ok
         /\ Len(ValueOf(fn_call.result)) = fn_call.num_bins
         /\ EveryValidPositionDistributed(ValueOf(fn_call.result))

\* C17: the binning run never returns an empty or partial bin list: it fails
\* when no positions are supplied, when none survives filtering or when range
\* detection fails, and otherwise returns exactly num_bins bins into which
\* every valid position has been distributed.
C17_BinningRunComplete ==
    Returned("create_bins_from_data") => BinningRunContract

\* the same for fewer positions than the percentile indices need to leave any out
C17_ShortListsComplete ==
    (Returned("create_bins_from_data") /\ Len(fn_call.positions) < ManyPositions)
        => BinningRunContract

\* n bins of equal width that tile the range from min_price to max_price, empty
EmptyTiling(bins, min_price, max_price, n) ==
    /\ Len(bins) = n
    /\ \A k \in 1..n :
          /\ bins[k].bin_index = k - 1
          /\ bins[k].priceLower < bins[k].priceUpper
          /\ (bins[k].priceUpper - bins[k].priceLower) * n = max_price - min_price
          /\ k < n => bins[k].priceUpper = bins[k + 1].priceLower
          /\ bins[k].amount_weth = 0 /\ bins[k].amount_usdt = 0 /\ bins[k].count_nfts = 0
    /\ bins[1].priceLower = min_price
    /\ bins[n].priceUpper = max_price

\* C18: build_bins(min_price, max_price, n) fails when min_price >= max_price
\* and otherwise returns n bins with indices 0..n-1, each with price_lower <
\* price_upper, all of width (max_price - min_price)/n, contiguous, the first
\* starting at min_price and the last ending at max_price, with zero amounts
\* and zero count.
C18_CreateBinsTilesRange ==
    Returned("create_bins")
        => IF fn_call.min_price >= fn_call.max_price THEN ~fn_call.result.ok
           ELSE /\ fn_call.result.ok
                /\ EmptyTiling(ValueOf(fn_call.result), fn_call.min_price, fn_call.max_price,
                               fn_call.num_bins)

\* four bins were built over a range
C18_Witness ==
    /\ Returned("create_bins") /\ fn_call.result.ok
    /\ fn_call.num_bins = 4 /\ Len(ValueOf(fn_call.result)) = 4
    /\ ValueOf(fn_call.result)[2].priceLower > fn_call.min_price
    /\ ValueOf(fn_call.result)[4].priceUpper = fn_call.max_price

\* the valid positions of the call that touch the bin
TouchingPositions(bin) ==
    {i \in 1..Len(ValidPositions) : Touches(ValidPositions[i], bin)}

\* C19: distribute increments count_nfts by exactly 1 in every bin the
\* position touches, however small the overlap, and leaves it unchanged in
\* every other bin; after a run, the count_nfts of each bin is the number of
\* valid positions that touch the bin.
C19_CountOncePerTouchedBin ==
    /\ Returned("distribute_position_to_bins")
          => /\ Len(fn_call.result) = Len(fn_call.bins)
             /\ \A k \in 1..Len(fn_call.bins) :
                   fn_call.result[k].count_nfts =
                       fn_call.bins[k].count_nfts
                           + (IF Touches(fn_call.position, fn_call.bins[k]) THEN 1 ELSE 0)
    /\ (Returned("create_bins_from_data") /\ fn_call.result.ok)
          => \A k \in 1..Len(ValueOf(fn_call.result)) :
                ValueOf(fn_call.result)[k].count_nfts
                    = Cardinality(TouchingPositions(ValueOf(fn_call.result)[k]))

\* a position was distributed over bins that held a position already: it
\* touches one bin by a quarter of its width and a second by three quarters,
\* both are counted once more, and a bin it does not touch keeps its count
C19_Witness ==
    /\ Returned("distribute_position_to_bins")
    /\ \E k \in 1..Len(fn_call.bins) :
          /\ k + 2 <= Len(fn_call.bins)
          /\ Touches(fn_call.position, fn_call.bins[k])
          /\ Touches(fn_call.position, fn_call.bins[k + 1])
          /\ ~Touches(fn_call.position, fn_call.bins[k + 2])
          /\ (fn_call.bins[k].priceUpper - fn_call.position.price_lower_afterdecimals) * 3
                = fn_call.position.price_upper_afterdecimals - fn_call.bins[k + 1].priceLower
          /\ fn_call.bins[k].count_nfts = 1 /\ fn_call.result[k].count_nfts = 2
          /\ fn_call.result[k + 1].count_nfts = 2
          /\ fn_call.result[k + 2].count_nfts = fn_call.bins[k + 2].count_nfts

Abs(x) == IF x < 0 THEN -x ELSE x

\* the resolution of the arithmetic on an amount: one unit, and one part in Scale
Tolerance(amount) == amount \div Scale + 1

\* the length of the common part of the position's interval and the bin's
OverlapLength(position, bin) ==
    IF ~Touches(position, bin) THEN 0
    ELSE Min(position.price_upper_afterdecimals, bin.priceUpper)
           - (IF position.price_lower_afterdecimals >= bin.priceLower
              THEN position.price_lower_afterdecimals ELSE bin.priceLower)

PositionWidth(position) ==
    position.price_upper_afterdecimals - position.price_lower_afterdecimals

\* what the call added to bin k, as <<weth, usdt>>
Added(k) ==
    <<fn_call.result[k].amount_weth - fn_call.bins[k].amount_weth,
      fn_call.result[k].amount_usdt - fn_call.bins[k].amount_usdt>>

PositionAmounts == <<fn_call.position.amount_weth, fn_call.position.amount_usdt>>

TouchedBins == {k \in 1..Len(fn_call.bins) : Touches(fn_call.position, fn_call.bins[k])}

RECURSIVE SumOver(_, _)
SumOver(f, S) ==
    IF S = {} THEN 0
    ELSE LET k == CHOOSE x \in S : TRUE IN f[k] + SumOver(f, S \ {k})

\* the total added over all bins, for token t of <<weth, usdt>>
TotalAdded(t) == SumOver([k \in 1..Len(fn_call.bins) |-> Added(k)[t]], 1..Len(fn_call.bins))

\* the position has a width and its range lies inside the range the bins cover
InsideBinnedRange ==
    /\ PositionWidth(fn_call.position) > 0
    /\ fn_call.bins[1].priceLower <= fn_call.position.price_lower_afterdecimals
    /\ fn_call.position.price_upper_afterdecimals <= fn_call.bins[Len(fn_call.bins)].priceUpper

\* each touched bin receives amount * overlap / width, every other bin nothing
ProportionalShares ==
    \A k \in 1..Len(fn_call.bins), t \in 1..2 :
      IF k \in TouchedBins
      THEN Abs(Added(k)[t] * PositionWidth(fn_call.position)
                 - PositionAmounts[t] * OverlapLength(fn_call.position, fn_call.bins[k]))
             <= Tolerance(PositionAmounts[t]) * PositionWidth(fn_call.position)
      ELSE Added(k)[t] = 0

\* a position inside one bin adds its full amounts to it
FullAmountInOneBin ==
    \A k \in 1..Len(fn_call.bins) :
      (/\ fn_call.bins[k].priceLower <= fn_call.position.price_lower_afterdecimals
       /\ fn_call.position.price_upper_afterdecimals <= fn_call.bins[k].priceUpper
       /\ PositionWidth(fn_call.position) > 0)
        => /\ Added(k) = PositionAmounts
           /\ \A j \in 1..Len(fn_call.bins) : j # k => Added(j) = <<0, 0>>

\* a position over two adjacent bins adds amounts in the proportion of the two
\* overlap lengths, and they sum to the position's amounts
SplitInProportion ==
    \A k \in 1..Len(fn_call.bins), t \in 1..2 :
      (TouchedBins = {k, k + 1} /\ InsideBinnedRange)
        => LET L1 == OverlapLength(fn_call.position, fn_call.bins[k])
               L2 == OverlapLength(fn_call.position, fn_call.bins[k + 1])
           IN  /\ L1 + L2 = PositionWidth(fn_call.position)
               /\ Abs(Added(k)[t] * L2 - Added(k + 1)[t] * L1)
                     <= Tolerance(PositionAmounts[t]) * (L1 + L2)
               /\ Abs(Added(k)[t] + Added(k + 1)[t] - PositionAmounts[t])
                     <= 2 * Tolerance(PositionAmounts[t])

\* the amounts added sum to the position's when it lies inside the binned
\* range, and never exceed them
SumsToAmount ==
    \A t \in 1..2 :
      /\ TotalAdded(t) <= PositionAmounts[t]
      /\ InsideBinnedRange
            => PositionAmounts[t] - TotalAdded(t)
                 <= Cardinality(TouchedBins) * Tolerance(PositionAmounts[t])

\* C20: distribute adds to each overlapping bin the position's amount times
\* overlap length / position width: a position inside one bin adds its full
\* amounts there and nothing elsewhere, a position split over two adjacent
\* bins adds amounts in proportion L1:L2 that sum to its total, the amounts
\* added over all bins sum to the position's amount when its range lies
\* inside the binned range and never exceed it, and a position with upper
\* == lower adds nothing.
C20_ProportionalDistribution ==
    Returned("distribute_position_to_bins")
        => /\ Len(fn_call.result) = Len(fn_call.bins)
           /\ ProportionalShares
           /\ FullAmountInOneBin
           /\ SplitInProportion
           /\ SumsToAmount
           /\ PositionWidth(fn_call.position) = 0 => fn_call.result = fn_call.bins

\* a position was split over two adjacent bins one to three, and they hold a
\* quarter and three quarters of its amounts more than before
C20_Witness ==
    /\ Returned("distribute_position_to_bins") /\ InsideBinnedRange
    /\ \E k \in 1..Len(fn_call.bins) :
          /\ TouchedBins = {k, k + 1}
          /\ OverlapLength(fn_call.position, fn_call.bins[k]) * 3
                = OverlapLength(fn_call.position, fn_call.bins[k + 1])
          /\ Added(k)[1] > 0 /\ Added(k)[1] * 3 = Added(k + 1)[1]
          /\ Added(k)[1] + Added(k + 1)[1] = fn_call.position.amount_weth
          /\ fn_call.bins[k].amount_weth > 0

-----------------------------------------------------------------------------
(* Properties of range detection and validation *)

\* the positions of the call whose bound is present and positive
PresentAt(key) ==
    {i \in 1..Len(fn_call.positions) :
        key \in DOMAIN fn_call.positions[i] /\ fn_call.positions[i][key] > 0}

\* v is the element at 0-based index k of the sorted present positive bounds
OrderStatistic(key, k, v) ==
    /\ Cardinality({i \in PresentAt(key) : fn_call.positions[i][key] < v}) <= k
    /\ Cardinality({i \in PresentAt(key) : fn_call.positions[i][key] <= v}) > k

\* the result is the pair of percentile elements, and a failure when either
\* collection of bounds is empty
C21_PercentileElements ==
    Returned("find_price_range")
        => LET n_lowers == Cardinality(PresentAt("price_lower_afterdecimals"))
               n_uppers == Cardinality(PresentAt("price_upper_afterdecimals"))
           IN  IF n_lowers = 0 \/ n_uppers = 0 THEN ~fn_call.result.ok
               ELSE /\ fn_call.result.ok
                    /\ OrderStatistic("price_lower_afterdecimals",
                                      (n_lowers * 5) \div 100,
                                      ValueOf(fn_call.result)[1])
                    /\ OrderStatistic("price_upper_afterdecimals",
                                      Min(n_uppers - 1, (n_uppers * 95) \div 100),
                                      ValueOf(fn_call.result)[2])

LowOutliers ==
    {SyntheticSet[i].price_lower_afterdecimals : i \in 1..Outliers}

HighOutliers ==
    {SyntheticSet[i].price_upper_afterdecimals :
        i \in (SyntheticPositions - Outliers + 1)..SyntheticPositions}

OnSyntheticSet == Returned("find_price_range") /\ fn_call.positions = SyntheticSet

\* on the synthetic set the minimum is none of the extreme lower bounds
C21_LowOutliersExcluded ==
    OnSyntheticSet => /\ fn_call.result.ok
                      /\ ValueOf(fn_call.result)[1] \notin LowOutliers

\* C21: find_price_range returns (sorted lowers[floor(0.05*n)], sorted
\* uppers[min(n-1, floor(0.95*n))]) over the present positive bounds and
\* fails if either collection is empty; on a set of 100 positions with 5
\* extreme outliers at each end, the returned minimum is not one of the 5 low
\* outliers and the returned maximum is not one of the 5 high outliers.
C21_RobustPriceRange ==
    /\ C21_PercentileElements
    /\ C21_LowOutliersExcluded
    /\ OnSyntheticSet => ValueOf(fn_call.result)[2] \notin HighOutliers

\* the value of a key of the validated position, None when it is absent
Given(key) ==
    IF key \in DOMAIN fn_call.position THEN Some(fn_call.position[key]) ELSE None

\* absent, or a number from 0 to the ceiling (every number of the model is
\* finite); the ceiling of the stable token is beyond the numbers of the model
AmountAcceptable(amount, has_ceiling, ceiling) ==
    IsNone(amount) \/ (Val(amount) >= 0 /\ (has_ceiling => Val(amount) <= ceiling))

\* the fixed-point numbers from 1e-10 to 1e10 are the positive ones
InGuardBand(price) == price > 0

PositionAcceptable ==
    LET price_lower == Given("price_lower_afterdecimals")
        price_upper == Given("price_upper_afterdecimals")
    IN  /\ ~IsNone(price_lower) /\ ~IsNone(price_upper)
        /\ Val(price_lower) < Val(price_upper)
        /\ Val(price_lower) >= fn_call.min_reasonable
        /\ Val(price_upper) <= fn_call.max_reasonable
        /\ InGuardBand(Val(price_lower)) /\ InGuardBand(Val(price_upper))
        /\ AmountAcceptable(Given("amount_weth"), TRUE, MAX_WETH * Scale)
        /\ AmountAcceptable(Given("amount_usdt"), FALSE, 0)

-----------------------------------------------------------------------------
(* Properties of the liquidity deltas and the final summary *)

\* call k is an increase or decrease that names identifier id
Names(calls, k, id) ==
    /\ calls[k].signature \in {"increaseLiquidity", "decreaseLiquidity"}
    /\ calls[k].nft_id = Some(id)

NamedIds(calls) ==
    {Val(calls[k].nft_id) :
        k \in {j \in 1..Len(calls) :
                 /\ calls[j].signature \in {"increaseLiquidity", "decreaseLiquidity"}
                 /\ ~IsNone(calls[j].nft_id)}}

\* the amount of one call in units of 10^e, negative for a decrease
SignedAmount(call, field, e) ==
    LET amount == IF IsNone(call[field]) THEN 0
                  ELSE Val(call[field]).m * Pow10(Val(call[field]).e - e)
    IN  IF call.signature = "decreaseLiquidity" THEN -amount ELSE amount

RECURSIVE NetAmount(_, _, _, _)
NetAmount(calls, id, field, e) ==
    IF calls = <<>> THEN 0
    ELSE (IF Names(calls, 1, id) THEN SignedAmount(Head(calls), field, e) ELSE 0)
            + NetAmount(Tail(calls), id, field, e)

\* a raw amount in units of 10^e
Units(raw, e) == IF raw.m = 0 THEN 0 ELSE raw.m * Pow10(raw.e - e)

\* the two mappings have the same identifiers, counts and amounts
SameDeltas(d1, d2) ==
    /\ DOMAIN d1 = DOMAIN d2
    /\ \A id \in DOMAIN d1 :
          /\ d1[id].count = d2[id].count
          /\ Units(d1[id].total_amount0, 15) = Units(d2[id].total_amount0, 15)
          /\ Units(d1[id].total_amount1, 6) = Units(d2[id].total_amount1, 6)

CountsAndNetAmounts ==
    /\ DOMAIN fn_call.result = NamedIds(fn_call.calls)
    /\ \A id \in DOMAIN fn_call.result :
          /\ fn_call.result[id].count
                = Cardinality({k \in 1..Len(fn_call.calls) : Names(fn_call.calls, k, id)})
          /\ Units(fn_call.result[id].total_amount0, 15)
                = NetAmount(fn_call.calls, id, "amount0", 15)
          /\ Units(fn_call.result[id].total_amount1, 6)
                = NetAmount(fn_call.calls, id, "amount1", 6)

\* the records before and after call k: one more event for the identifier the
\* call names, every other record as it was
OneRecordPerCall ==
    \A k \in 1..Len(fn_call.calls) :
      LET before == parse_liquidity_events(SubSeq(fn_call.calls, 1, k - 1))
          after == parse_liquidity_events(SubSeq(fn_call.calls, 1, k))
          named == {id \in NamedIds(fn_call.calls) : Names(fn_call.calls, k, id)}
      IN  /\ DOMAIN after = DOMAIN before \cup named
          /\ \A id \in DOMAIN before \ named : after[id] = before[id]
          /\ \A id \in named :
                after[id].count
                  = 1 + (IF id \in DOMAIN before THEN before[id].count ELSE 0)
          /\ Cardinality(named) <= 1

OrderIndependent ==
    \A order \in Permutations(1..Len(fn_call.calls)) :
      SameDeltas(fn_call.result,
                 parse_liquidity_events([k \in 1..Len(fn_call.calls) |->
                                            fn_call.calls[order[k]]]))

\* C23: parse_liquidity_events yields, for each identifier, count = the number
\* of increase/decrease calls naming that identifier and total_amount0/1 = sum
\* of amounts of its increases minus sum of amounts of its decreases; each
\* call changes the record of exactly one identifier, and the resulting
\* mapping is the same for every ordering of the input calls.
C23_LiquidityDeltas ==
    Returned("parse_liquidity_events")
        => CountsAndNetAmounts /\ OneRecordPerCall /\ OrderIndependent

\* three calls named two identifiers, one of them by an increase and a
\* decrease whose amounts cancel in part, the other left negative
C23_Witness ==
    /\ Returned("parse_liquidity_events")
    /\ DOMAIN fn_call.result = {1, 4}
    /\ fn_call.result[1].count = 2
    /\ Units(fn_call.result[1].total_amount0, 15) = 600
    /\ Units(fn_call.result[4].total_amount1, 6) = -900

\* the delta of mint position i, zero when its identifier has none
DeltaOf(i) ==
    IF fn_call.mint_positions[i].nft_id \in DOMAIN fn_call.liquidity_data
    THEN fn_call.liquidity_data[fn_call.mint_positions[i].nft_id]
    ELSE [count |-> 0, total_amount0 |-> Raw(0, 0), total_amount1 |-> Raw(0, 0)]

MintUnits(amount, e) == IF IsNone(amount) THEN 0 ELSE Units(Val(amount), e)

\* mint amount + net delta amount of the token in slot 0 or 1, in units of
\* 10^e of the token's smallest unit
FinalUnits(i, slot, e) ==
    IF slot = 0
    THEN MintUnits(fn_call.mint_positions[i].amount0, e) + Units(DeltaOf(i).total_amount0, e)
    ELSE MintUnits(fn_call.mint_positions[i].amount1, e) + Units(DeltaOf(i).total_amount1, e)

WethIsToken0(i) == fn_call.mint_positions[i].token0 = WETH_ADDRESS

\* the final amounts in tokens: WETH has 18 decimals, USDT has 6
FinalWeth(i) == (FinalUnits(i, IF WethIsToken0(i) THEN 0 ELSE 1, 15) * Scale) \div 1000
FinalUsdt(i) == FinalUnits(i, IF WethIsToken0(i) THEN 1 ELSE 0, 6) * Scale

ExpectedEntry(i) ==
    [nft_id |-> fn_call.mint_positions[i].nft_id,
     create_time |-> fn_call.mint_positions[i].timestamp,
     number_of_positions |-> 1 + DeltaOf(i).count,
     price_lower_afterdecimals |-> fn_call.mint_positions[i].price_lower_afterdecimals,
     price_upper_afterdecimals |-> fn_call.mint_positions[i].price_upper_afterdecimals,
     amount_weth |-> FinalWeth(i),
     amount_usdt |-> FinalUsdt(i)]

FinalAmountsValid(i) ==
    FinalWeth(i) >= 0 /\ FinalWeth(i) <= MAX_WETH * Scale /\ FinalUsdt(i) >= 0

PriceBoundsValid(i) ==
    /\ fn_call.mint_positions[i].price_lower_afterdecimals
          < fn_call.mint_positions[i].price_upper_afterdecimals
    /\ fn_call.mint_positions[i].price_lower_afterdecimals >= MIN_REASONABLE_PRICE * Scale
    /\ fn_call.mint_positions[i].price_upper_afterdecimals <= MAX_REASONABLE_PRICE * Scale

KeptMints ==
    SelectSeq([i \in 1..Len(fn_call.mint_positions) |-> i],
              LAMBDA i : FinalAmountsValid(i) /\ PriceBoundsValid(i))

\* C24: create_final_summary emits, for each mint position in input order, at
\* most one entry with number_of_positions = 1 + delta.count (zero delta if
\* the identifier has none), amounts = mint amount + net delta amount
\* (decimals-adjusted, mapped to the WETH/USDT slots by which token is token0)
\* and price bounds equal to the mint-time bounds; the entry is dropped
\* exactly when the final amounts or the price bounds fail validation, e.g.
\* when net decreases make a final amount negative.
C24_FinalSummary ==
    Returned("create_final_summary")
        => /\ Len(fn_call.result) = Len(KeptMints)
           /\ \A j \in 1..Len(KeptMints) : fn_call.result[j] = ExpectedEntry(KeptMints[j])

\* of two mints the one with USDT as token0 was kept with its delta added,
\* and the other was dropped because net decreases made its WETH negative
C24_Witness ==
    /\ Returned("create_final_summary")
    /\ Len(fn_call.mint_positions) = 2 /\ Len(fn_call.result) = 1
    /\ ~WethIsToken0(2) /\ FinalWeth(1) < 0 /\ PriceBoundsValid(1)
    /\ fn_call.result[1].nft_id = fn_call.mint_positions[2].nft_id
    /\ fn_call.result[1].number_of_positions = 2
    /\ fn_call.result[1].amount_weth = 3 * Scale

-----------------------------------------------------------------------------
(* Properties of the extraction of mint positions *)

WellFormed(record) == "malformed" \notin DOMAIN record

TrackedPair(record) ==
    {normalize_address(record.token0), normalize_address(record.token1)}
        = {WETH_ADDRESS, USDT_ADDRESS}

\* the conditions on a record other than the recovery of its two raw amounts
RequiredFields(record) ==
    /\ WellFormed(record)
    /\ record.n_arguments >= 2
    /\ TrackedPair(record)
    /\ ~IsNone(record.tick_lower) /\ ~IsNone(record.tick_upper)
    /\ ~IsNone(record.nft_id)
    /\ ~IsNone(record.time)

AmountsRecovered(record) == ~IsNone(record.amount0) /\ ~IsNone(record.amount1)

\* the records of the batch that yield a position, in input order
Yielding(Condition(_)) ==
    SelectSeq([k \in 1..Len(fn_call.calls) |-> k],
              LAMBDA k : Condition(fn_call.calls[k]))

\* the batch was parsed to the end and the records that yielded a position
\* are those that satisfy the condition
YieldsExactly(Condition(_)) ==
    /\ fn_call.result.ok
    /\ Len(ValueOf(fn_call.result)) = Len(Yielding(Condition))
    /\ \A j \in 1..Len(Yielding(Condition)) :
          ValueOf(fn_call.result)[j].nft_id
            = Val(fn_call.calls[Yielding(Condition)[j]].nft_id)

AllRequired(record) == RequiredFields(record) /\ AmountsRecovered(record)

\* C25: extract_position_data returns a position only if the record has at
\* least two arguments, the pair contains both tracked tokens (in either
\* order), lower and upper ticks are present at argument indices 3 and 4, a
\* position identifier and two raw amounts are recoverable from the return
\* values, and a timestamp is available; any record failing one of these
\* conditions yields nothing, and a malformed record never aborts parsing of
\* the remaining records of the batch.
C25_ExtractionRequirements ==
    Returned("parse_positions") => YieldsExactly(AllRequired)

\* a batch of records of dicts and integers is parsed to the end, and a record
\* yields a position exactly when it meets the conditions other than the
\* recovery of the amounts
C25_RequiredFieldsOnly ==
    (Returned("parse_positions") /\ \A k \in 1..Len(fn_call.calls) :
                                       Malformation(fn_call.calls[k]) # "null_argument")
        => YieldsExactly(RequiredFields)

\* a record whose amounts were not recovered yields a position without them
C25_PositionWithoutAmounts ==
    /\ Returned("parse_positions") /\ fn_call.result.ok
    /\ \E j \in 1..Len(ValueOf(fn_call.result)) :
          IsNone(ValueOf(fn_call.result)[j].amount0)

\* a record with a null argument ends the parsing of the batch by an exception
C25_BatchAborted ==
    /\ Returned("parse_positions") /\ ~fn_call.result.ok
    /\ Malformation(fn_call.calls[1]) = "none"

-----------------------------------------------------------------------------
(* Properties of the cache over sequential requests *)

\* the request being answered ended with an error response
EndedInError == Answered /\ ~IsNone(last.body.error)

\* the request failed while it fetched the volume of a band
FailedInVolumeFetch ==
    EndedInError /\ ~IsNone(last.calls.volume_fetches) /\ last.calls.volume > 0

\* C26: a request that ends with an error response (mint-fetch failure, no
\* positions, binning failure, or any exception raised during the refresh
\* including one raised while fetching band volumes) leaves every cache field
\* (bins, full recommendation, total position count, timestamp) exactly as it
\* was before the request.
C26_ErrorLeavesCacheUntouched ==
    EndedInError => cache = last.before

\* an error response of a request that reached no volume fetch leaves the
\* cache as it was, and every error response leaves the full recommendation
\* and the timestamp as they were
C26_ErrorBeforeVolumeFetch ==
    EndedInError => /\ ~FailedInVolumeFetch => cache = last.before
                    /\ cache.data = last.before.data
                    /\ cache.timestamp = last.before.timestamp

\* a refresh failed in a volume fetch and left new bins in the cache
C26_PartialWrite ==
    /\ FailedInVolumeFetch /\ last.calls.mint = 1
    /\ cache.bins # last.before.bins
    /\ cache.timestamp = last.before.timestamp

\* the cached full recommendation holds the top bands of the cached bins
DataFromCachedBins ==
    /\ ~IsNone(cache.bins)
    /\ BandsOf(Val(cache.data)) = TopBandsTable[<<Val(cache.bins), TOP_N_DEFAULT>>]
    /\ Val(Val(cache.data).metadata).total_bins = Len(Val(cache.bins))
    /\ Val(Val(cache.data).metadata).total_positions = Val(cache.total_positions)

\* C27: in every state reachable by sequential requests, whenever the cache
\* holds a full recommendation it was computed from the bin list currently
\* held in the cache (the cached recommendation and the cached bins stem from
\* the same refresh).
C27_DataMatchesCachedBins ==
    ~IsNone(cache.data) => DataFromCachedBins

\* the request that stored the cached full recommendation leaves it with the
\* bins it was computed from
C27_DataMatchesWhenStored ==
    (Answered /\ ~IsNone(cache.data) /\ cache.data # last.before.data)
        => DataFromCachedBins

\* a filtered request refreshed the expired cache and answered: the bins are
\* new, the full recommendation is the one of the refresh before
C27_FilteredRefreshLeavesOldData ==
    /\ FilteredRequest /\ IsNone(last.body.error) /\ last.calls.mint = 1
    /\ ~IsNone(cache.data) /\ cache.data = last.before.data
    /\ cache.bins # last.before.bins
    /\ ~DataFromCachedBins

BinsIffTimestamp == ~IsNone(cache.bins) <=> ~IsNone(cache.timestamp)

DataImpliesBinsAndTimestamp ==
    ~IsNone(cache.data) => (~IsNone(cache.bins) /\ ~IsNone(cache.timestamp))

\* no step empties a cache field that holds a value
NeverReset ==
    /\ ~IsNone(cache.bins) => ~IsNone(cache'.bins)
    /\ ~IsNone(cache.timestamp) => ~IsNone(cache'.timestamp)
    /\ ~IsNone(cache.data) => ~IsNone(cache'.data)

\* C28: in every state reachable by sequential requests, the cached bins are
\* present if and only if the timestamp is present, and a present cached full
\* recommendation implies that both are present; once populated, no request
\* ever resets any of these fields to empty.
C28_CachePopulatedTogether ==
    /\ [](BinsIffTimestamp /\ DataImpliesBinsAndTimestamp)
    /\ [][NeverReset]_vars

\* a timestamp is never without bins, a full recommendation never without
\* both, and no field is reset
C28_TimestampImpliesBins ==
    /\ [](~IsNone(cache.timestamp) => ~IsNone(cache.bins))
    /\ []DataImpliesBinsAndTimestamp
    /\ [][NeverReset]_vars

\* the first refresh failed in a volume fetch: bins without a timestamp
C28_BinsWithoutTimestamp ==
    /\ FailedInVolumeFetch /\ last.before = EmptyCache
    /\ ~IsNone(cache.bins) /\ IsNone(cache.timestamp)

\* the fields of a bin as create_bins makes it
BinFields ==
    {"bin_index", "priceLower", "priceUpper", "amount_weth", "amount_usdt", "count_nfts"}

\* the request was filtered and found bins younger than the TTL
ServedFromCachedBins == FilteredRequest /\ FoundWarmBins

\* C29: a filtered request served from cached bins changes nothing in the
\* cache: the cached bin list and each cached bin (amounts, count, and absence
\* of total_liquidity / trading_volume_24h fields), the cached full
\* recommendation, the total position count and the timestamp are identical
\* before and after, so any number of filtered requests within the TTL
\* neither extend the TTL nor alter what a later request sees.
C29_CachedBinsRequestLeavesCache ==
    ServedFromCachedBins
        => /\ cache = last.before
           /\ \A k \in 1..Len(Val(cache.bins)) : DOMAIN Val(cache.bins)[k] = BinFields

\* a filtered request was answered from the cached bins with bands that carry
\* total_liquidity and trading_volume_24h, and the cache is as it was
C29_Witness ==
    /\ ServedFromCachedBins /\ IsNone(last.body.error) /\ last.calls.mint = 0
    /\ last.body.top_liquidity_bands # <<>>
    /\ \A j \in 1..Len(last.body.top_liquidity_bands) :
          {"total_liquidity", "trading_volume_24h"}
              \subseteq DOMAIN last.body.top_liquidity_bands[j]
    /\ cache = last.before /\ last.started > 0

-----------------------------------------------------------------------------
(* Properties of the detected range *)

\* the position passes validation: lower < upper inside the reasonable range,
\* with amounts that are acceptable
PassesValidation(position) ==
    /\ DOMAIN position = DOMAIN TypicalPosition
    /\ position.price_lower_afterdecimals < position.price_upper_afterdecimals
    /\ position.price_lower_afterdecimals >= MIN_REASONABLE_PRICE * Scale
    /\ position.price_upper_afterdecimals <= MAX_REASONABLE_PRICE * Scale
    /\ position.amount_weth >= 0 /\ position.amount_weth <= MAX_WETH * Scale
    /\ position.amount_usdt >= 0

AllPassValidation ==
    /\ fn_call.positions # <<>>
    /\ \A i \in 1..Len(fn_call.positions) : PassesValidation(fn_call.positions[i])

\* the result is the pair of percentile elements: no fallback replaced them
NoFallbackEntered ==
    /\ OrderStatistic("price_lower_afterdecimals",
                      (Len(fn_call.positions) * 5) \div 100, ValueOf(fn_call.result)[1])
    /\ OrderStatistic("price_upper_afterdecimals",
                      Min(Len(fn_call.positions) - 1, (Len(fn_call.positions) * 95) \div 100),
                      ValueOf(fn_call.result)[2])

\* C30: for every non-empty set of positions that pass validation (each with
\* lower < upper inside the reasonable range), find_price_range returns
\* min_price < max_price without entering its median or min/max fallbacks, so
\* within a binning run create_bins never fails on the detected range.
C30_ValidPositionsGiveProperRange ==
    /\ (Returned("find_price_range") /\ AllPassValidation)
          => /\ fn_call.result.ok
             /\ ValueOf(fn_call.result)[1] < ValueOf(fn_call.result)[2]
             /\ NoFallbackEntered
             /\ create_bins(ValueOf(fn_call.result)[1], ValueOf(fn_call.result)[2],
                            NUM_BINS).ok
    /\ (Returned("create_bins_from_data")
           /\ \E i \in 1..Len(fn_call.positions) : PassesValidation(fn_call.positions[i]))
          => fn_call.result.ok

\* a long list of valid positions gave a range that starts above its lowest
\* lower bound
C30_Witness ==
    /\ Returned("find_price_range") /\ AllPassValidation /\ fn_call.result.ok
    /\ Len(fn_call.positions) >= ManyPositions
    /\ \E i \in 1..Len(fn_call.positions) :
          fn_call.positions[i].price_lower_afterdecimals < ValueOf(fn_call.result)[1]
    /\ ValueOf(fn_call.result)[1] < ValueOf(fn_call.result)[2]

====
